---------------------------- MODULE Spec2Model ----------------------------
(***************************************************************************)
(* A model of pcdpy: the typed columnar field store (src/fielddata.rs),    *)
(* the point cloud and its invariant check (src/pointcloud.rs), the       *)
(* dtype/schema model (src/metadata.rs) and the PCD codec (src/io.rs,      *)
(* src/utils.rs, src/pointcloud.rs).                                       *)
(*                                                                         *)
(* The specifications share the variables:                                *)
(*   Spec            one call of a FieldData operation on a store          *)
(*   SpecPointCloud  check_pointcloud on a point cloud                     *)
(*   SpecCodec       saving a point cloud to a file and loading a file     *)
(*   SpecPy          the operations of the Python class on a point cloud   *)
(*   SpecHeader      loading files with rewritten headers and payloads     *)
(*   SpecDtype       the conversions of Dtype                              *)
(*   SpecBuffer      the assignments of rows and buffers to a store        *)
(*   SpecRoundTrip   a header written and parsed back                      *)
(*   SpecLock        threads taking the lock of one metadata cell          *)
(*   SpecView        the metadata cells of point clouds and their views    *)
(* Row and column indices are 0-based in the code; a TLA+ sequence is      *)
(* 1-based, so row r of the code is data[r + 1].                           *)
(***************************************************************************)
EXTENDS Integers, Sequences, FiniteSets, TLC

VARIABLES
    store,   \* the FieldData an operation is called on (self)
    pc,      \* a PointCloud: [metadata, fields]
    file,    \* the content of a PCD file
    meta,    \* a Metadata the caller holds (behind another Arc than pc's)
    call,    \* the last call: its name, its arguments, the state before it
    ret      \* what the last call returned

vars == <<store, pc, meta, file, call, ret>>

\* A variable a specification does not use.
Unused == "unused"

\* ------------------------------------------------------------ bounds
MaxPoints == 3      \* rows of a store
MaxCount == 2       \* columns of a field (its count)
MaxStep == 2        \* slice steps
MaxCloudPoints == 2 \* points of a cloud (metadata.npoints)
MaxSeed == 1        \* fillings of a saved cloud: 0..MaxSeed
MaxSmallInt == 16   \* the numerals 0..MaxSmallInt are tokens of a file

\* ------------------------------------------------- metadata.rs: Dtype
Dtype == {"U8", "U16", "U32", "U64", "I8", "I16", "I32", "I64", "F32", "F64"}

get_size(d) ==
    CASE d \in {"U8", "I8"} -> 1
      [] d \in {"U16", "I16"} -> 2
      [] d \in {"U32", "I32", "F32"} -> 4
      [] d \in {"U64", "I64", "F64"} -> 8

get_type(d) ==
    CASE d \in {"U8", "U16", "U32", "U64"} -> "U"
      [] d \in {"I8", "I16", "I32", "I64"} -> "I"
      [] d \in {"F32", "F64"} -> "F"

\* Dtype::as_numpy_dtype
as_numpy_dtype(d) ==
    CASE d = "U8" -> "uint8"
      [] d = "U16" -> "uint16"
      [] d = "U32" -> "uint32"
      [] d = "U64" -> "uint64"
      [] d = "I8" -> "int8"
      [] d = "I16" -> "int16"
      [] d = "I32" -> "int32"
      [] d = "I64" -> "int64"
      [] d = "F32" -> "float32"
      [] d = "F64" -> "float64"

\* Dtype::from_numpy_dtype: [some |-> TRUE, val |-> d] or None ([some |->
\* FALSE]).
from_numpy_dtype(dtype) ==
    CASE dtype = "uint8" -> [some |-> TRUE, val |-> "U8"]
      [] dtype = "uint16" -> [some |-> TRUE, val |-> "U16"]
      [] dtype = "uint32" -> [some |-> TRUE, val |-> "U32"]
      [] dtype = "uint64" -> [some |-> TRUE, val |-> "U64"]
      [] dtype = "int8" -> [some |-> TRUE, val |-> "I8"]
      [] dtype = "int16" -> [some |-> TRUE, val |-> "I16"]
      [] dtype = "int32" -> [some |-> TRUE, val |-> "I32"]
      [] dtype = "int64" -> [some |-> TRUE, val |-> "I64"]
      [] dtype = "float32" -> [some |-> TRUE, val |-> "F32"]
      [] dtype = "float64" -> [some |-> TRUE, val |-> "F64"]
      [] OTHER -> [some |-> FALSE]

\* ------------------------------------------------ fielddata.rs: FieldData
\* A FieldData is one enum variant (dtype) holding an Array2 of shape
\* (npoints, count): data is the sequence of its rows.
\* A panic (an ndarray bounds or shape assertion, a failed assert_eq!, an
\* unwrap of None/Err) is a result of its own; results are records.
Panic == [kind |-> "panic"]
IsPanic(x) == "kind" \in DOMAIN x

\* FieldData::new: a zero-filled store.
FieldData_new(dtype, npoints, count) ==
    [dtype |-> dtype, npoints |-> npoints, count |-> count,
     data |-> [r \in 1..npoints |-> [c \in 1..count |-> 0]]]

\* FieldData::len: the total number of values (ndarray's Array2::len).
FieldData_len(fd) == fd.npoints * fd.count

\* FieldData::npoints: shape()[0].
FieldData_npoints(fd) == fd.npoints

\* Rows selected by ndarray's s![start..end; step] on an axis of length len:
\* the 0-based indices, or Panic when the range leaves the axis. An end
\* below start is read as an empty range.
NdSliceRows(len, start, end, step) ==
    IF start > len \/ end > len \/ step = 0 THEN Panic
    ELSE LET e == IF end < start THEN start ELSE end
             m == e - start
             n == (m + step - 1) \div step
         IN [rows |-> [k \in 1..n |-> start + (k - 1) * step]]

\* FieldData::slice (match_slice!): an owned copy of the selected rows, in
\* the same variant.
FieldData_slice_off_by_one(fd, start, stop, step) ==
    LET sl == NdSliceRows(fd.npoints, start, stop, step)
        rows == sl.rows
    IN IF IsPanic(sl) THEN Panic
       ELSE [dtype |-> fd.dtype, npoints |-> Len(rows), count |-> fd.count,
             data |-> [k \in 1..Len(rows) |->
                          fd.data[IF rows[k] + 2 <= fd.npoints
                                  THEN rows[k] + 2 ELSE rows[k] + 1]]]

FieldData_slice(fd, start, stop, step) ==
    LET sl == NdSliceRows(fd.npoints, start, stop, step)
        rows == sl.rows
    IN IF IsPanic(sl) THEN Panic
       ELSE [dtype |-> fd.dtype, npoints |-> Len(rows), count |-> fd.count,
             data |-> [k \in 1..Len(rows) |-> fd.data[rows[k] + 1]]]

\* usize::saturating_sub
saturating_sub(a, b) == IF a >= b THEN a - b ELSE 0

\* The row count update_slice_strided computes for a range and a step.
num_rows(range, step) ==
    (saturating_sub(range.end, range.start) + step - 1) \div step

\* ArrayViewMut::assign of the donor rows to the target rows: equal shapes
\* copy row by row; a donor of one column is broadcast over the target's
\* columns; any other shape panics.
NdAssign_consecutive_donor_rows(fd, orig_rows, new_field, new_rows) ==
    IF Len(orig_rows) # Len(new_rows) THEN Panic
    ELSE IF new_field.count # fd.count /\ new_field.count # 1 THEN Panic
    ELSE LET src(k) == new_field.data[new_rows[1] + k]
             row(k) == IF new_field.count = fd.count THEN src(k)
                       ELSE [c \in 1..fd.count |-> src(k)[1]]
             hit(r) == {k \in 1..Len(orig_rows) : orig_rows[k] + 1 = r}
         IN [fd EXCEPT !.data =
                [r \in 1..fd.npoints |->
                    IF hit(r) = {} THEN fd.data[r]
                    ELSE row(CHOOSE k \in hit(r) : TRUE)]]

NdAssign(fd, orig_rows, new_field, new_rows) ==
    IF Len(orig_rows) # Len(new_rows) THEN Panic
    ELSE IF new_field.count # fd.count /\ new_field.count # 1 THEN Panic
    ELSE LET src(k) == new_field.data[new_rows[k] + 1]
             row(k) == IF new_field.count = fd.count THEN src(k)
                       ELSE [c \in 1..fd.count |-> src(k)[1]]
             hit(r) == {k \in 1..Len(orig_rows) : orig_rows[k] + 1 = r}
         IN [fd EXCEPT !.data =
                [r \in 1..fd.npoints |->
                    IF hit(r) = {} THEN fd.data[r]
                    ELSE row(CHOOSE k \in hit(r) : TRUE)]]

\* The match arms of update_slice_strided for two stores of one variant:
\* orig_arr.slice_mut(orig_slice).assign(&new_arr.slice(new_slice)).
AssignSlices(fd, new_field, orig_range, orig_step, new_range, new_step) ==
    LET orig_rows == NdSliceRows(fd.npoints, orig_range.start, orig_range.end, orig_step)
        new_rows == NdSliceRows(new_field.npoints, new_range.start, new_range.end, new_step)
        out == IF IsPanic(orig_rows) \/ IsPanic(new_rows) THEN Panic
               ELSE NdAssign(fd, orig_rows.rows, new_field, new_rows.rows)
    IN IF IsPanic(out) THEN [res |-> "panic", store |-> fd]
       ELSE [res |-> "Ok", store |-> out]

\* FieldData::update_slice_strided: [res, store] where res is "Ok",
\* "LengthMismatch" (Err "Slice lengths do not match"), "DtypeMismatch"
\* (Err "Field types do not match for slice assignment") or "panic", and
\* store is self after the call.
update_slice_strided_dtype_first(fd, new_field, orig_range, orig_step, new_range, new_step) ==
    IF fd.dtype # new_field.dtype
    THEN [res |-> "DtypeMismatch", store |-> fd]
    ELSE IF num_rows(orig_range, orig_step) # num_rows(new_range, new_step)
    THEN [res |-> "LengthMismatch", store |-> fd]
    ELSE AssignSlices(fd, new_field, orig_range, orig_step, new_range, new_step)

update_slice_strided_no_dtype_arm(fd, new_field, orig_range, orig_step, new_range, new_step) ==
    IF num_rows(orig_range, orig_step) # num_rows(new_range, new_step)
    THEN [res |-> "LengthMismatch", store |-> fd]
    ELSE AssignSlices(fd, new_field, orig_range, orig_step, new_range, new_step)

update_slice_strided(fd, new_field, orig_range, orig_step, new_range, new_step) ==
    IF num_rows(orig_range, orig_step) # num_rows(new_range, new_step)
    THEN [res |-> "LengthMismatch", store |-> fd]
    ELSE IF fd.dtype # new_field.dtype
    THEN [res |-> "DtypeMismatch", store |-> fd]
    ELSE AssignSlices(fd, new_field, orig_range, orig_step, new_range, new_step)

\* ---------------------------------------------- Spec: the field store
\* The stores the operations are called on: every dtype, empty or of
\* MaxPoints rows, each element a value that tells its row and column (as in
\* tests::test_slicing, whose rows are [1], [2], ...). The ranges of a call
\* reach one past the last row, so that a call can leave the array.
Marked(dtype, npoints, count, base) ==
    [dtype |-> dtype, npoints |-> npoints, count |-> count,
     data |-> [r \in 1..npoints |-> [c \in 1..count |-> base + (r - 1) * count + c]]]

Stores == {Marked(d, n, c, 0) : d \in Dtype, n \in {0, MaxPoints}, c \in 1..MaxCount}

\* The donors of a call on fd: of fd's dtype in every shape, of every other
\* dtype in one shape.
Donors(fd) ==
    {Marked(fd.dtype, n, c, 50) : n \in {0, MaxPoints}, c \in 1..MaxCount}
    \cup {Marked(d, MaxPoints, 1, 50) : d \in Dtype \ {fd.dtype}}

Steps == 1..MaxStep
Ranges(n) == [start : 0..n, end : 0..(n + 1)]

InitStore ==
    /\ store \in Stores
    /\ pc = Unused
    /\ file = Unused
    /\ meta = Unused
    /\ call = [op |-> "none"]
    /\ ret = [op |-> "none"]

\* field.slice(start, stop, step): returns a new store; self is borrowed
\* immutably.
Slice ==
    /\ call.op = "none"
    /\ \E r \in Ranges(store.npoints), step \in Steps :
          /\ call' = [op |-> "slice", self |-> store, start |-> r.start,
                      stop |-> r.end, step |-> step]
          /\ ret' = FieldData_slice(store, r.start, r.end, step)
    /\ UNCHANGED <<store, pc, file, meta>>

\* field.update_slice_strided(&new_field, orig_range, orig_step, new_range,
\* new_step)
UpdateSliceStrided ==
    /\ call.op = "none"
    /\ \E new_field \in Donors(store) :
       \E orig_range \in Ranges(store.npoints), new_range \in Ranges(new_field.npoints) :
       \E orig_step \in Steps, new_step \in Steps :
          LET out == update_slice_strided(store, new_field, orig_range, orig_step,
                                          new_range, new_step)
          IN /\ call' = [op |-> "update_slice_strided", self |-> store,
                         new_field |-> new_field,
                         orig_range |-> orig_range, orig_step |-> orig_step,
                         new_range |-> new_range, new_step |-> new_step]
             /\ store' = out.store
             /\ ret' = [res |-> out.res]
    /\ UNCHANGED <<pc, file, meta>>

NextStore == Slice \/ UpdateSliceStrided

Spec == InitStore /\ [][NextStore]_vars

\* ------------------------------------------------ claims on the field store
\* ceil(a / b) for a >= 0, b >= 1, as the least n with n * b >= a.
CeilDiv(a, b) == CHOOSE n \in 0..a : n * b >= a /\ \A m \in 0..(n - 1) : m * b < a

\* The number of rows a half-open strided selection enumerates.
Selected(start, end, step) == IF end <= start THEN 0 ELSE CeilDiv(end - start, step)

InRange(start, end, n) == 0 <= start /\ start <= end /\ end <= n

Sliced == call.op = "slice"
Updated == call.op = "update_slice_strided"

\* C5: slice(start, stop, step) with 0 <= start <= stop <= npoints and
\* step >= 1 returns a new store of the same dtype and count with exactly
\* ceil((stop-start)/step) rows, row k being row start + k*step of the
\* original; slice(0, npoints, 1) equals the original; the original store
\* is unchanged.
C5_SliceSelectsStridedRows ==
    (Sliced /\ InRange(call.start, call.stop, call.self.npoints)) =>
        /\ ~IsPanic(ret)
        /\ ret.dtype = call.self.dtype
        /\ ret.count = call.self.count
        /\ ret.npoints = Selected(call.start, call.stop, call.step)
        /\ Len(ret.data) = ret.npoints
        /\ \A k \in 0..(ret.npoints - 1) :
              ret.data[k + 1] = call.self.data[call.start + k * call.step + 1]
        /\ (call.start = 0 /\ call.stop = call.self.npoints /\ call.step = 1
              => ret = call.self)
        /\ store = call.self

C5_WitnessStrided ==
    /\ Sliced
    /\ call.start = 0 /\ call.stop = 3 /\ call.step = 2
    /\ ~IsPanic(ret)
    /\ ret.npoints = 2
    /\ ret.data[2] = call.self.data[3]

\* The preconditions C6 names: equal dtypes, in-range half-open ranges and
\* equally many selected rows on both sides (steps are >= 1 in every call).
C6_Pre ==
    /\ Updated
    /\ call.self.dtype = call.new_field.dtype
    /\ InRange(call.orig_range.start, call.orig_range.end, call.self.npoints)
    /\ InRange(call.new_range.start, call.new_range.end, call.new_field.npoints)
    /\ Selected(call.orig_range.start, call.orig_range.end, call.orig_step)
         = Selected(call.new_range.start, call.new_range.end, call.new_step)

\* What C6 promises: every selected row of self equals the donor's row, every
\* other row of self is as before.
C6_Post ==
    LET n == Selected(call.orig_range.start, call.orig_range.end, call.orig_step)
        target == {call.orig_range.start + k * call.orig_step : k \in 0..(n - 1)}
    IN /\ ret.res = "Ok"
       /\ store.dtype = call.self.dtype
       /\ store.npoints = call.self.npoints
       /\ store.count = call.self.count
       /\ \A k \in 0..(n - 1) :
             store.data[call.orig_range.start + k * call.orig_step + 1]
               = call.new_field.data[call.new_range.start + k * call.new_step + 1]
       /\ \A r \in 0..(call.self.npoints - 1) :
             r \notin target => store.data[r + 1] = call.self.data[r + 1]

\* C6 as stated: under C6_Pre alone the selected rows of self become equal
\* to the donor's rows and the rest of self is unchanged.
C6_Original == C6_Pre => C6_Post

\* C6 (amended): the same, for a donor whose count equals the store's count.
C6_UpdateCopiesStridedRows ==
    (C6_Pre /\ call.new_field.count = call.self.count) => C6_Post

C6_Witness ==
    /\ C6_Pre
    /\ call.new_field.count = call.self.count
    /\ call.self.count = 2
    /\ call.orig_range = [start |-> 0, end |-> 3] /\ call.orig_step = 2
    /\ call.new_range = [start |-> 1, end |-> 3] /\ call.new_step = 1
    /\ store.data[3] = call.new_field.data[3]
    /\ store.data[2] = call.self.data[2]

\* C7: whenever the two strided selections enumerate different numbers of
\* rows, update_slice_strided fails with LengthMismatch and self is unchanged.
C7_LengthMismatchRejected ==
    (Updated /\ Selected(call.orig_range.start, call.orig_range.end, call.orig_step)
                  # Selected(call.new_range.start, call.new_range.end, call.new_step))
        => (ret.res = "LengthMismatch" /\ store = call.self)

C7_Witness ==
    /\ Updated
    /\ call.orig_range = [start |-> 0, end |-> 3] /\ call.orig_step = 2
    /\ call.new_range = [start |-> 0, end |-> 3] /\ call.new_step = 1
    /\ call.self.dtype # call.new_field.dtype
    /\ ret.res = "LengthMismatch"

\* C8 as stated: whenever the donor holds another dtype than self, the call
\* fails with DtypeMismatch and self is unchanged.
C8_Original ==
    (Updated /\ call.self.dtype # call.new_field.dtype)
        => (ret.res = "DtypeMismatch" /\ store = call.self)

\* C8 (amended): whenever the donor holds another dtype than self, the call
\* fails with an error and self is unchanged; the error is DtypeMismatch when
\* both selections enumerate the same number of rows and LengthMismatch
\* otherwise (the row counts are compared first).
C8_DtypeMismatchRejected ==
    (Updated /\ call.self.dtype # call.new_field.dtype) =>
        /\ store = call.self
        /\ ret.res = IF Selected(call.orig_range.start, call.orig_range.end, call.orig_step)
                         = Selected(call.new_range.start, call.new_range.end, call.new_step)
                     THEN "DtypeMismatch" ELSE "LengthMismatch"

C8_Witness ==
    /\ Updated
    /\ call.self.dtype = "F32" /\ call.new_field.dtype = "F64"
    /\ call.orig_range = [start |-> 0, end |-> 3] /\ call.orig_step = 1
    /\ call.new_range = [start |-> 0, end |-> 3] /\ call.new_step = 1
    /\ ret.res = "DtypeMismatch"

\* ------------------------------------------------ values and their forms
\* An element of an integer dtype is the integer. An element of a float
\* dtype is a whole number of 1e-7 units, so that FloatOne is 1.0: one
\* decimal more than write_ascii_data prints. All modelled floats are >= 0.
FloatOne == 10000000

IsFloat(d) == get_type(d) = "F"

\* The IEEE-754 bytes (little-endian) of the floats the model uses.
FloatTable ==
    << [v |-> 0,                f32 |-> <<0, 0, 0, 0>>,         f64 |-> <<0, 0, 0, 0, 0, 0, 0, 0>>],
       [v |-> 1,                f32 |-> <<149, 191, 214, 51>>,  f64 |-> <<72, 175, 188, 154, 242, 215, 122, 62>>],
       [v |-> FloatOne \div 2,  f32 |-> <<0, 0, 0, 63>>,        f64 |-> <<0, 0, 0, 0, 0, 0, 224, 63>>],
       [v |-> FloatOne,         f32 |-> <<0, 0, 128, 63>>,      f64 |-> <<0, 0, 0, 0, 0, 0, 240, 63>>],
       [v |-> 2 * FloatOne,     f32 |-> <<0, 0, 0, 64>>,        f64 |-> <<0, 0, 0, 0, 0, 0, 0, 64>>],
       [v |-> 3 * FloatOne,     f32 |-> <<0, 0, 64, 64>>,       f64 |-> <<0, 0, 0, 0, 0, 0, 8, 64>>],
       [v |-> 4 * FloatOne,     f32 |-> <<0, 0, 128, 64>>,      f64 |-> <<0, 0, 0, 0, 0, 0, 16, 64>>],
       [v |-> 5 * FloatOne,     f32 |-> <<0, 0, 160, 64>>,      f64 |-> <<0, 0, 0, 0, 0, 0, 20, 64>>],
       [v |-> 6 * FloatOne,     f32 |-> <<0, 0, 192, 64>>,      f64 |-> <<0, 0, 0, 0, 0, 0, 24, 64>>] >>

FloatValues == {FloatTable[i].v : i \in DOMAIN FloatTable}

FloatBits(d, e) == IF d = "F32" THEN e.f32 ELSE e.f64

\* The values the model stores in a field of each dtype.
Samples(d) ==
    CASE d = "U8" -> <<7, 255, 128>>
      [] d = "U16" -> <<258, 65535, 9>>
      [] d = "U32" -> <<16909060, 7, 65536>>
      [] d = "U64" -> <<16909060, 7, 2147483647>>
      [] d = "I8" -> <<-128, -1, 5>>
      [] d = "I16" -> <<-2, 513, -32768>>
      [] d = "I32" -> <<-16909060, 2147483647, -1>>
      [] d = "I64" -> <<-2, 16909060, -2147483647>>
      [] d = "F32" -> <<FloatOne, FloatOne \div 2, 1>>
      [] d = "F64" -> <<2 * FloatOne, FloatOne \div 2, 1>>

\* Whether the integer v is a value of the integer dtype d. Every integer of
\* the model is a value of a 32-bit signed and of a 64-bit type, and of a
\* 32-bit unsigned type when it is not negative.
InRangeOf(d, v) ==
    CASE d = "U8" -> v >= 0 /\ v <= 255
      [] d = "U16" -> v >= 0 /\ v <= 65535
      [] d \in {"U32", "U64"} -> v >= 0
      [] d = "I8" -> v >= -128 /\ v <= 127
      [] d = "I16" -> v >= -32768 /\ v <= 32767
      [] d \in {"I32", "I64"} -> TRUE

\* The low `size` bytes of the two's complement of v, lowest first.
RECURSIVE LeBytes(_, _)
LeBytes(v, size) ==
    IF size = 0 THEN <<>> ELSE <<v % 256>> \o LeBytes(v \div 256, size - 1)

\* The unsigned integer of the bytes, lowest first.
RECURSIVE FromLe(_)
FromLe(bytes) ==
    IF bytes = <<>> THEN 0 ELSE Head(bytes) + 256 * FromLe(Tail(bytes))

\* T::to_le_bytes(val), `val as u8`
to_le_bytes(d, v) ==
    IF IsFloat(d)
    THEN FloatBits(d, FloatTable[CHOOSE i \in DOMAIN FloatTable : FloatTable[i].v = v])
    ELSE LeBytes(v, get_size(d))

\* T::from_le_bytes(chunk), read_T::<LittleEndian>(), `b as i8`
from_le_bytes(d, bytes) ==
    IF IsFloat(d)
    THEN FloatTable[CHOOSE i \in DOMAIN FloatTable : FloatBits(d, FloatTable[i]) = bytes].v
    ELSE IF get_type(d) = "I" /\ bytes[Len(bytes)] >= 128
    THEN 0 - (1 + FromLe([i \in DOMAIN bytes |-> 255 - bytes[i]]))
    ELSE FromLe(bytes)

\* The decimal digits of n, k of them.
RECURSIVE Digits(_, _)
Digits(n, k) ==
    IF k = 0 THEN "" ELSE Digits(n \div 10, k - 1) \o ToString(n % 10)

RECURSIVE DigitsStripped(_, _)
DigitsStripped(n, k) ==
    IF n % 10 = 0 THEN DigitsStripped(n \div 10, k - 1) ELSE Digits(n, k)

\* The float rounded to six decimals (no modelled float is half way).
Round6(v) == ((v + 5) \div 10) * 10

\* format!("{:.6}", v) of a float
format_fixed6(v) ==
    ToString(Round6(v) \div FloatOne) \o "." \o Digits((Round6(v) % FloatOne) \div 10, 6)

\* format!("{}", v) of a float: the shortest decimal that reads back as v.
format_display(v) ==
    IF v % FloatOne = 0 THEN ToString(v \div FloatOne)
    ELSE ToString(v \div FloatOne) \o "." \o DigitsStripped(v % FloatOne, 7)

None == [some |-> FALSE]
Some(v) == [some |-> TRUE, val |-> v]

\* The integers a token of the model can denote: the stored samples and the
\* small numbers of a header.
IntValues ==
    UNION {{Samples(d)[i] : i \in 1..3} : d \in {x \in Dtype : ~IsFloat(x)}}
        \cup (0..MaxSmallInt)

IntTokens == {<<ToString(v), v>> : v \in IntValues}

\* The decimal tokens of floats, as Display and as {:.6} write them, with
\* the float each reads back as.
FloatTokens ==
    {<<format_display(v), v>> : v \in FloatValues}
        \cup {<<format_fixed6(v), Round6(v)>> : v \in FloatValues}

\* str::parse::<T>(): the value of the token, None when it is not a T.
parse(d, tok) ==
    LET hits == IF IsFloat(d) THEN {p \in FloatTokens : p[1] = tok}
                ELSE {p \in IntTokens : p[1] = tok /\ InRangeOf(d, p[2])}
    IN IF hits = {} THEN None ELSE Some((CHOOSE p \in hits : TRUE)[2])

\* ------------------------------------------- pointcloud.rs: PointCloud
\* A Metadata is [fields, width, height, npoints, viewpoint, encoding,
\* version], fields being the sequence of FieldMeta [name, dtype, count].
\* A PointCloud is [metadata, fields], fields being the HashMap from field
\* name to FieldData (a function on the set of stored names).
Insert(map, name, fd) ==
    [n \in DOMAIN map \cup {name} |-> IF n = name THEN fd ELSE map[n]]

Remove(map, name) == [n \in DOMAIN map \ {name} |-> map[n]]

EmptyMap == [n \in {} |-> 0]

\* The HashMap PointCloud::new builds: one insert per schema entry, in
\* schema order (a repeated name keeps the last entry's store).
RECURSIVE NewFields(_, _, _)
NewFields(schema, npoints, i) ==
    IF i = 0 THEN EmptyMap
    ELSE Insert(NewFields(schema, npoints, i - 1), schema[i].name,
                FieldData_new(schema[i].dtype, npoints, schema[i].count))

PointCloud_new_count_one(md) ==
    [metadata |-> md,
     fields |-> [n \in {md.fields[i].name : i \in 1..Len(md.fields)} |->
                   FieldData_new(NewFields(md.fields, md.npoints, Len(md.fields))[n].dtype,
                                 md.npoints, 1)]]

\* PointCloud::new: a private clone of md and a zero-filled store per
\* schema entry.
PointCloud_new(md) ==
    [metadata |-> md, fields |-> NewFields(md.fields, md.npoints, Len(md.fields))]

\* md.fields.iter().find(|f| f.name == *field_name): the index of the first
\* schema entry of that name, 0 when there is none.
FindField(schema, name) ==
    IF \E i \in 1..Len(schema) : schema[i].name = name
    THEN CHOOSE i \in 1..Len(schema) :
            schema[i].name = name /\ \A j \in 1..(i - 1) : schema[j].name # name
    ELSE 0

Ok == [ok |-> TRUE]
Err(e) == [ok |-> FALSE, err |-> e]

\* A result the ? operator returns from the caller with (an Err), or that
\* unwinds it (a panic).
Failed(r) == IF IsPanic(r) THEN TRUE ELSE ~r.ok

\* What the loop body of check_pointcloud finds for one stored field.
\* The length compared with md.npoints is field_data.len().
CheckField_no_dtype(p, name) ==
    LET md == p.metadata
        i == FindField(md.fields, name)
    IN IF i = 0 THEN Err("Field exists in data but not in metadata")
       ELSE IF FieldData_len(p.fields[name]) # md.npoints THEN Err("Field length mismatch")
       ELSE Ok

CheckField(p, name) ==
    LET md == p.metadata
        i == FindField(md.fields, name)
    IN IF i = 0 THEN Err("Field exists in data but not in metadata")
       ELSE IF p.fields[name].dtype # md.fields[i].dtype THEN Err("Field dtype mismatch")
       ELSE IF FieldData_len(p.fields[name]) # md.npoints THEN Err("Field length mismatch")
       ELSE Ok

\* PointCloud::check_pointcloud: the results the call can return. The loop
\* over the HashMap returns at the first field it finds wrong, and the
\* iteration order of a HashMap is not fixed, so with several wrong fields
\* any of their errors can be the one returned.
check_pointcloud(p) ==
    LET md == p.metadata
        names == DOMAIN p.fields
        wrong == {n \in names : ~CheckField(p, n).ok}
    IN IF md.height * md.width # md.npoints
       THEN {Err("Metadata height x width does not match npoints")}
       ELSE IF Len(md.fields) # Cardinality(names)
       THEN {Err("Metadata field count does not match field count")}
       ELSE IF wrong = {} THEN {Ok}
       ELSE {CheckField(p, n) : n \in wrong}

\* ------------------------------------------ SpecPointCloud: the check
\* The clouds checked: PointCloud::new of a metadata with width * height =
\* npoints, as it is or after one write to the public members (the field
\* map, the shape of the metadata).
Names == {"x", "y"}
Identity == <<0, 0, 0, FloatOne, 0, 0, 0>>

Schemas ==
    {<<[name |-> "x", dtype |-> d, count |-> c]>> : d \in Dtype, c \in 1..MaxCount}
    \cup {<<[name |-> "x", dtype |-> d, count |-> c],
            [name |-> "y", dtype |-> e, count |-> 1]>> :
              d \in Dtype, e \in {"U8", "F32"}, c \in 1..MaxCount}

Shapes == {s \in [width : 0..MaxCloudPoints, height : 1..MaxCloudPoints] :
              s.width * s.height <= MaxCloudPoints}

Metadatas ==
    {[fields |-> f, width |-> s.width, height |-> s.height,
      npoints |-> s.width * s.height, viewpoint |-> Identity,
      encoding |-> "BinaryCompressed", version |-> "0.7"] :
        f \in Schemas, s \in Shapes}

InitCloud ==
    /\ \E md \in Metadatas : pc = PointCloud_new(md)
    /\ store = Unused
    /\ file = Unused
    /\ meta = Unused
    /\ call = [op |-> "new"]
    /\ ret = [op |-> "none"]

\* pc.fields.insert(name, fd)
InsertField ==
    /\ call.op = "new"
    /\ \E name \in {"x", "z"}, d \in Dtype, n \in 0..MaxCloudPoints, c \in 1..MaxCount :
          pc' = [pc EXCEPT !.fields = Insert(@, name, FieldData_new(d, n, c))]
    /\ call' = [op |-> "edit"]
    /\ UNCHANGED <<store, file, ret, meta>>

\* pc.fields.remove(name)
RemoveField ==
    /\ call.op = "new"
    /\ \E name \in DOMAIN pc.fields :
          pc' = [pc EXCEPT !.fields = Remove(@, name)]
    /\ call' = [op |-> "edit"]
    /\ UNCHANGED <<store, file, ret, meta>>

\* A write of width, height and npoints through the metadata lock.
SetShape ==
    /\ call.op = "new"
    /\ \E w \in 0..MaxCloudPoints, h \in 1..MaxCloudPoints, n \in 0..MaxCloudPoints :
          pc' = [pc EXCEPT !.metadata.width = w, !.metadata.height = h,
                           !.metadata.npoints = n]
    /\ call' = [op |-> "edit"]
    /\ UNCHANGED <<store, file, ret, meta>>

\* A schema entry renamed or pushed through the metadata lock.
SetSchema ==
    /\ call.op = "new"
    /\ \/ \E i \in 1..Len(pc.metadata.fields), name \in {"x", "y", "w"} :
             pc' = [pc EXCEPT !.metadata.fields[i].name = name]
       \/ \E d \in {"U8", "F32"} :
             pc' = [pc EXCEPT !.metadata.fields =
                       Append(@, [name |-> "z", dtype |-> d, count |-> 1])]
    /\ call' = [op |-> "edit"]
    /\ UNCHANGED <<store, file, ret, meta>>

\* pc.check_pointcloud()
CheckPointcloud ==
    /\ call.op \in {"new", "edit"}
    /\ \E r \in check_pointcloud(pc) : ret' = r
    /\ call' = [op |-> "check_pointcloud"]
    /\ UNCHANGED <<store, pc, file, meta>>

NextCloud == InsertField \/ RemoveField \/ SetShape \/ SetSchema \/ CheckPointcloud

SpecPointCloud == InitCloud /\ [][NextCloud]_vars

\* ----------------------------------------------- claims on the check
Checked == call.op = "check_pointcloud"

SchemaNames(p) == {p.metadata.fields[i].name : i \in 1..Len(p.metadata.fields)}

ShapeWrong(p) == p.metadata.width * p.metadata.height # p.metadata.npoints
FieldCountWrong(p) == Len(p.metadata.fields) # Cardinality(DOMAIN p.fields)
NameWrong(p) == \E n \in DOMAIN p.fields : n \notin SchemaNames(p)
DtypeWrong(p) ==
    \E n \in DOMAIN p.fields : \E i \in 1..Len(p.metadata.fields) :
        /\ p.metadata.fields[i].name = n
        /\ \A j \in 1..(i - 1) : p.metadata.fields[j].name # n
        /\ p.metadata.fields[i].dtype # p.fields[n].dtype

\* C9: check_pointcloud returns an error when width * height != npoints, when
\* the number of schema entries differs from the number of stored fields,
\* when a stored field name has no schema entry, and when a stored field's
\* dtype differs from its schema entry's dtype.
C9_CheckRejectsMismatch ==
    (Checked /\ (ShapeWrong(pc) \/ FieldCountWrong(pc) \/ NameWrong(pc) \/ DtypeWrong(pc)))
        => ~ret.ok

C9_Witness ==
    /\ Checked
    /\ DtypeWrong(pc)
    /\ ~ShapeWrong(pc) /\ ~FieldCountWrong(pc) /\ ~NameWrong(pc)
    /\ pc.metadata.npoints = 0
    /\ ~ret.ok

\* C10: when width * height == npoints and the schema and the field map have
\* the same names and matching dtypes, check_pointcloud succeeds if and only
\* if every FieldData has npoints() equal to metadata.npoints, for fields of
\* count > 1 as for fields of count 1.
C10_CheckComparesRows ==
    (Checked /\ ~ShapeWrong(pc) /\ ~FieldCountWrong(pc) /\ ~NameWrong(pc) /\ ~DtypeWrong(pc))
        => (ret.ok <=> \A n \in DOMAIN pc.fields :
                          FieldData_npoints(pc.fields[n]) = pc.metadata.npoints)

\* ------------------------------------------------------- the PCD file
\* A file is [lines, bytes]. lines are its text lines, each the sequence of
\* its whitespace-separated tokens: a blank line is <<>>, and '#' occurs
\* only as a token of its own. bytes are the bytes that follow the DATA
\* line of a binary or binary_compressed file.
Encodings == {"Ascii", "Binary", "BinaryCompressed"}

\* Encoding::from_str
Encoding_from_str(s) ==
    CASE s = "ascii" -> Some("Ascii")
      [] s = "binary" -> Some("Binary")
      [] s = "binary_compressed" -> Some("BinaryCompressed")
      [] OTHER -> None

\* The match on md.encoding of write_header (Encoding::as_str has the same
\* arms).
data_str(e) ==
    CASE e = "Ascii" -> "ascii"
      [] e = "Binary" -> "binary"
      [] e = "BinaryCompressed" -> "binary_compressed"

\* from_type_size with the two float rows exchanged.
from_type_size_floats_swapped(t, s) ==
    CASE t = "U" /\ s = 1 -> [dtype |-> "U8"]
      [] t = "U" /\ s = 2 -> [dtype |-> "U16"]
      [] t = "U" /\ s = 4 -> [dtype |-> "U32"]
      [] t = "U" /\ s = 8 -> [dtype |-> "U64"]
      [] t = "I" /\ s = 1 -> [dtype |-> "I8"]
      [] t = "I" /\ s = 2 -> [dtype |-> "I16"]
      [] t = "I" /\ s = 4 -> [dtype |-> "I32"]
      [] t = "I" /\ s = 8 -> [dtype |-> "I64"]
      [] t = "F" /\ s = 4 -> [dtype |-> "F64"]
      [] t = "F" /\ s = 8 -> [dtype |-> "F32"]
      [] OTHER -> Panic

\* Dtype::from_type_size: [dtype |-> d], a panic for an unsupported pair.
from_type_size(t, s) ==
    CASE t = "U" /\ s = 1 -> [dtype |-> "U8"]
      [] t = "U" /\ s = 2 -> [dtype |-> "U16"]
      [] t = "U" /\ s = 4 -> [dtype |-> "U32"]
      [] t = "U" /\ s = 8 -> [dtype |-> "U64"]
      [] t = "I" /\ s = 1 -> [dtype |-> "I8"]
      [] t = "I" /\ s = 2 -> [dtype |-> "I16"]
      [] t = "I" /\ s = 4 -> [dtype |-> "I32"]
      [] t = "I" /\ s = 8 -> [dtype |-> "I64"]
      [] t = "F" /\ s = 4 -> [dtype |-> "F32"]
      [] t = "F" /\ s = 8 -> [dtype |-> "F64"]
      [] OTHER -> Panic

\* The sequences of a sequence, one after the other.
RECURSIVE Flatten(_)
Flatten(ss) == IF ss = <<>> THEN <<>> ELSE Head(ss) \o Flatten(Tail(ss))

\* iter().sum()
RECURSIVE Sum(_)
Sum(ns) == IF ns = <<>> THEN 0 ELSE Head(ns) + Sum(Tail(ns))

\* The words of a name or a version as a reader of the line splits them
\* (split_ascii_whitespace, '#' starting a comment): a string of the model
\* is one word unless it is one of these.
Words(str) ==
    CASE str = "" -> <<>>
      [] str = "a b" -> <<"a", "b">>
      [] str = "0.7 rc" -> <<"0.7", "rc">>
      [] str = "x#" -> <<"x", "#">>
      [] OTHER -> <<str>>

\* write_header with the HEIGHT line before the WIDTH line.
write_header_height_first(md) ==
    LET n == Len(md.fields)
    IN << <<"VERSION">> \o Words(md.version),
          <<"FIELDS">> \o Flatten([i \in 1..n |-> Words(md.fields[i].name)]),
          <<"SIZE">> \o [i \in 1..n |-> ToString(get_size(md.fields[i].dtype))],
          <<"TYPE">> \o [i \in 1..n |-> get_type(md.fields[i].dtype)],
          <<"COUNT">> \o [i \in 1..n |-> ToString(md.fields[i].count)],
          <<"HEIGHT", ToString(md.height)>>,
          <<"WIDTH", ToString(md.width)>>,
          <<"VIEWPOINT">> \o [i \in 1..7 |-> format_display(md.viewpoint[i])],
          <<"POINTS", ToString(md.npoints)>>,
          <<"DATA", data_str(md.encoding)>> >>

\* io.rs write_header: the ten header lines, each the words a reader
\* splits it into.
write_header(md) ==
    LET n == Len(md.fields)
    IN << <<"VERSION">> \o Words(md.version),
          <<"FIELDS">> \o Flatten([i \in 1..n |-> Words(md.fields[i].name)]),
          <<"SIZE">> \o [i \in 1..n |-> ToString(get_size(md.fields[i].dtype))],
          <<"TYPE">> \o [i \in 1..n |-> get_type(md.fields[i].dtype)],
          <<"COUNT">> \o [i \in 1..n |-> ToString(md.fields[i].count)],
          <<"WIDTH", ToString(md.width)>>,
          <<"HEIGHT", ToString(md.height)>>,
          <<"VIEWPOINT">> \o [i \in 1..7 |-> format_display(md.viewpoint[i])],
          <<"POINTS", ToString(md.npoints)>>,
          <<"DATA", data_str(md.encoding)>> >>

\* line.trim().split('#').next(): the tokens before a comment.
RECURSIVE StripComment(_)
StripComment(line) ==
    IF line = <<>> \/ Head(line) = "#" THEN <<>>
    ELSE <<Head(line)>> \o StripComment(Tail(line))

ParseAll(d, toks) == [i \in 1..Len(toks) |-> parse(d, toks[i])]
AllSome(ps) == \A i \in 1..Len(ps) : ps[i].some
Vals(ps) == [i \in 1..Len(ps) |-> ps[i].val]

\* The Option variables of load_metadata before the first line.
HeaderStart ==
    [version |-> None, fields |-> None, sizes |-> None, types |-> None,
     counts |-> None, width |-> None, height |-> None, viewpoint |-> None,
     npoints |-> None, encoding |-> None]

HeaderNext(acc) == [ok |-> TRUE, acc |-> acc, done |-> FALSE]

\* The match on values[0] of load_metadata for one non-empty line: rest are
\* the values after the key, sizes and floats what they parse to as usize
\* and as f32.
HeaderMatch(values, rest, sizes, floats, acc) ==
    CASE values[1] = "VERSION" ->
           IF Len(values) # 2 THEN Err("Invalid VERSION line")
           ELSE HeaderNext([acc EXCEPT !.version = Some(values[2])])
      [] values[1] = "FIELDS" ->
           IF Len(values) < 2 THEN Err("Invalid FIELDS line")
           ELSE HeaderNext([acc EXCEPT !.fields = Some(rest)])
      [] values[1] = "SIZE" ->
           IF Len(values) < 2 THEN Err("Invalid SIZE line")
           ELSE IF ~AllSome(sizes) THEN Panic
           ELSE HeaderNext([acc EXCEPT !.sizes = Some(Vals(sizes))])
      [] values[1] = "TYPE" ->
           IF Len(values) < 2 THEN Err("Invalid TYPE line")
           ELSE HeaderNext([acc EXCEPT !.types = Some(rest)])
      [] values[1] = "COUNT" ->
           IF Len(values) < 2 THEN Err("Invalid COUNT line")
           ELSE IF ~AllSome(sizes) THEN Panic
           ELSE HeaderNext([acc EXCEPT !.counts = Some(Vals(sizes))])
      [] values[1] = "WIDTH" ->
           IF Len(values) # 2 THEN Err("Invalid WIDTH line")
           ELSE IF ~AllSome(sizes) THEN Panic
           ELSE HeaderNext([acc EXCEPT !.width = Some(sizes[1].val)])
      [] values[1] = "HEIGHT" ->
           IF Len(values) # 2 THEN Err("Invalid HEIGHT line")
           ELSE IF ~AllSome(sizes) THEN Panic
           ELSE HeaderNext([acc EXCEPT !.height = Some(sizes[1].val)])
      [] values[1] = "VIEWPOINT" ->
           IF ~AllSome(floats) \/ Len(rest) # 7 THEN Panic
           ELSE HeaderNext([acc EXCEPT !.viewpoint = Some(Vals(floats))])
      [] values[1] = "POINTS" ->
           IF Len(values) # 2 THEN Err("Invalid POINTS line")
           ELSE IF ~AllSome(sizes) THEN Panic
           ELSE HeaderNext([acc EXCEPT !.npoints = Some(sizes[1].val)])
      [] values[1] = "DATA" ->
           IF Len(values) # 2 THEN Err("Invalid DATA line")
           ELSE IF ~Encoding_from_str(values[2]).some THEN Err("Invalid encoding")
           ELSE [ok |-> TRUE, done |-> TRUE,
                 acc |-> [acc EXCEPT !.encoding = Encoding_from_str(values[2])]]
      [] OTHER -> Err("Invalid metadata line")

HeaderLine(values, acc) ==
    HeaderMatch(values, Tail(values), ParseAll("U64", Tail(values)),
                ParseAll("F32", Tail(values)), acc)

\* The loop of load_metadata from line i on: the Option variables at the
\* DATA line and the index of the line after it.
RECURSIVE HeaderLoop(_, _, _)
RECURSIVE HeaderStep(_, _, _)
HeaderLoop(lines, i, acc) ==
    IF i > Len(lines) THEN Err("Unexpected EOF while reading metadata")
    ELSE IF StripComment(lines[i]) = <<>> THEN HeaderLoop(lines, i + 1, acc)
    ELSE HeaderStep(lines, i, HeaderLine(StripComment(lines[i]), acc))

\* The end of one pass of the loop, r what the match on line i gave: the
\* break at the DATA line, the next line otherwise.
HeaderStep(lines, i, r) ==
    IF Failed(r) THEN r
    ELSE IF r.done THEN [ok |-> TRUE, acc |-> r.acc, next |-> i + 1]
    ELSE HeaderLoop(lines, i + 1, r.acc)

Min(S) == CHOOSE m \in S : \A k \in S : m <= k

\* The schema load_metadata zips from the four lists (as long as the
\* shortest of them), a panic when a type and size pair is unsupported.
ZipSchema(acc) ==
    LET n == Min({Len(acc.fields.val), Len(acc.sizes.val),
                  Len(acc.types.val), Len(acc.counts.val)})
    IN IF \E i \in 1..n : IsPanic(from_type_size(acc.types.val[i], acc.sizes.val[i]))
       THEN Panic
       ELSE [fields |->
               [i \in 1..n |->
                  [name |-> acc.fields.val[i],
                   dtype |-> from_type_size(acc.types.val[i], acc.sizes.val[i]).dtype,
                   count |-> acc.counts.val[i]]]]

\* load_metadata with viewpoint unwrapped like the other Option variables
\* instead of defaulted.
BuildMetadata_viewpoint_required(h) ==
    IF Failed(h) THEN h
    ELSE IF ~h.acc.version.some THEN Err("Missing VERSION")
    ELSE IF ~h.acc.fields.some THEN Err("Missing FIELDS")
    ELSE IF ~h.acc.sizes.some THEN Err("Missing SIZE")
    ELSE IF ~h.acc.types.some THEN Err("Missing TYPE")
    ELSE IF ~h.acc.counts.some THEN Err("Missing COUNT")
    ELSE IF ~h.acc.width.some THEN Err("Missing WIDTH")
    ELSE IF ~h.acc.height.some THEN Err("Missing HEIGHT")
    ELSE IF ~h.acc.viewpoint.some THEN Err("Missing VIEWPOINT")
    ELSE IF ~h.acc.npoints.some THEN Err("Missing POINTS")
    ELSE IF ~h.acc.encoding.some THEN Err("Missing DATA encoding")
    ELSE IF IsPanic(ZipSchema(h.acc)) THEN Panic
    ELSE [ok |-> TRUE, next |-> h.next,
          md |-> [fields |-> ZipSchema(h.acc).fields,
                  width |-> h.acc.width.val,
                  height |-> h.acc.height.val,
                  npoints |-> h.acc.npoints.val,
                  viewpoint |-> IF h.acc.viewpoint.some
                                THEN h.acc.viewpoint.val ELSE Identity,
                  encoding |-> h.acc.encoding.val,
                  version |-> h.acc.version.val]]

\* The part of load_metadata after the loop, h what the loop gave: the
\* Option variables unwrapped (an error for a missing one) and the Metadata
\* built.
BuildMetadata(h) ==
    IF Failed(h) THEN h
    ELSE IF ~h.acc.version.some THEN Err("Missing VERSION")
    ELSE IF ~h.acc.fields.some THEN Err("Missing FIELDS")
    ELSE IF ~h.acc.sizes.some THEN Err("Missing SIZE")
    ELSE IF ~h.acc.types.some THEN Err("Missing TYPE")
    ELSE IF ~h.acc.counts.some THEN Err("Missing COUNT")
    ELSE IF ~h.acc.width.some THEN Err("Missing WIDTH")
    ELSE IF ~h.acc.height.some THEN Err("Missing HEIGHT")
    ELSE IF ~h.acc.npoints.some THEN Err("Missing POINTS")
    ELSE IF ~h.acc.encoding.some THEN Err("Missing DATA encoding")
    ELSE IF IsPanic(ZipSchema(h.acc)) THEN Panic
    ELSE [ok |-> TRUE, next |-> h.next,
          md |-> [fields |-> ZipSchema(h.acc).fields,
                  width |-> h.acc.width.val,
                  height |-> h.acc.height.val,
                  npoints |-> h.acc.npoints.val,
                  viewpoint |-> IF h.acc.viewpoint.some
                                THEN h.acc.viewpoint.val ELSE Identity,
                  encoding |-> h.acc.encoding.val,
                  version |-> h.acc.version.val]]

\* utils.rs load_metadata: [ok, md, next], an error or a panic.
load_metadata(lines) == BuildMetadata(HeaderLoop(lines, 1, HeaderStart))

\* ------------------------------------------------- io.rs: the writers
\* The clouds SpecCodec writes satisfy the invariant set: get(name) finds
\* the store of every schema entry, T is its dtype and row_idx one of its
\* rows, so that get_row::<T> is the row as stored.
get_row(fd, row_idx) == fd.data[row_idx + 1]

\* One value as write_ascii_data prints it: {} or {:.6}.
format(d, v) == IF IsFloat(d) THEN format_fixed6(v) ELSE ToString(v)

\* write_ascii_data: one line per point, the values of the fields in schema
\* order, each followed by a space; the line's trailing space trimmed.
write_ascii_data(p) ==
    [r \in 1..p.metadata.npoints |->
        Flatten([j \in 1..Len(p.metadata.fields) |->
            [c \in 1..Len(get_row(p.fields[p.metadata.fields[j].name], r - 1)) |->
                format(p.metadata.fields[j].dtype,
                       get_row(p.fields[p.metadata.fields[j].name], r - 1)[c])]])]

\* The little-endian bytes of one row of the field of schema entry f.
RowBytes(p, f, row_idx) ==
    Flatten([c \in 1..Len(get_row(p.fields[f.name], row_idx)) |->
                to_le_bytes(f.dtype, get_row(p.fields[f.name], row_idx)[c])])

\* write_binary_data: one block per point, the fields in schema order.
write_binary_data(p) ==
    Flatten([r \in 1..p.metadata.npoints |->
        Flatten([j \in 1..Len(p.metadata.fields) |->
                    RowBytes(p, p.metadata.fields[j], r - 1)])])

\* The buffer write_compressed_data builds: field after field in schema
\* order, each field's rows in point order.
ColumnMajor(p) ==
    Flatten([j \in 1..Len(p.metadata.fields) |->
        Flatten([r \in 1..p.metadata.npoints |->
                    RowBytes(p, p.metadata.fields[j], r - 1)])])

\* The number of bytes from position i on, at most cap, that repeat the
\* byte before them.
RECURSIVE RunLen(_, _, _)
RunLen(buf, i, cap) ==
    IF cap = 0 \/ i < 2 \/ i > Len(buf) THEN 0
    ELSE IF buf[i] # buf[i - 1] THEN 0
    ELSE 1 + RunLen(buf, i + 1, cap - 1)

\* An LZF stream of buf: a back reference (length - 2 in the top three bits,
\* offset - 1 = 0 below) for a run of three to eight repeats of the byte
\* before it, literal runs (length - 1, then the bytes) for everything else.
RECURSIVE LzfStream(_, _, _)
LzfStream(buf, i, lits) ==
    LET flush == IF lits = <<>> THEN <<>> ELSE <<Len(lits) - 1>> \o lits
    IN IF i > Len(buf) THEN flush
       ELSE IF RunLen(buf, i, 8) >= 3
       THEN flush \o <<(RunLen(buf, i, 8) - 2) * 32, 0>>
                  \o LzfStream(buf, i + RunLen(buf, i, 8), <<>>)
       ELSE IF Len(lits) = 32
       THEN flush \o LzfStream(buf, i + 1, <<buf[i]>>)
       ELSE LzfStream(buf, i + 1, Append(lits, buf[i]))

\* lzf::compress: what the call can return. It gives up when it finds no
\* stream shorter than the input; which inputs it gives up on is the
\* library's choice.
lzf_compress(buf) ==
    {Err("NoCompressionPossible")}
        \cup (IF Len(LzfStream(buf, 1, <<>>)) < Len(buf)
              THEN {[ok |-> TRUE, buf |-> LzfStream(buf, 1, <<>>)]} ELSE {})

RECURSIVE CopyBack(_, _, _)
CopyBack(out, off, n) ==
    IF n = 0 THEN out ELSE CopyBack(Append(out, out[Len(out) - off + 1]), off, n - 1)

RECURSIVE LzfDecode(_, _, _, _)
LzfDecode(data, i, out, cap) ==
    IF i > Len(data) THEN [ok |-> TRUE, buf |-> out]
    ELSE IF data[i] < 32
    THEN LET n == data[i] + 1
         IN IF Len(out) + n > cap THEN Err("BufferTooSmall")
            ELSE IF i + n > Len(data) THEN Err("DataCorrupted")
            ELSE LzfDecode(data, i + n + 1, out \o SubSeq(data, i + 1, i + n), cap)
    ELSE LET long == data[i] \div 32 = 7
             last == IF long THEN i + 2 ELSE i + 1
         IN IF last > Len(data) THEN Err("DataCorrupted")
            ELSE LET len == (IF long THEN 7 + data[i + 1] ELSE data[i] \div 32) + 2
                     off == (data[i] % 32) * 256 + data[last] + 1
                 IN IF Len(out) + len > cap THEN Err("BufferTooSmall")
                    ELSE IF off > Len(out) THEN Err("DataCorrupted")
                    ELSE LzfDecode(data, last + 1, CopyBack(out, off, len), cap)

\* lzf::decompress(data, out_len_should)
lzf_decompress(data, out_len_should) ==
    IF data = <<>> THEN Err("DataCorrupted")
    ELSE LzfDecode(data, 1, <<>>, out_len_should)

\* write_compressed_data: what the call can write. The two u32 prefixes
\* (compressed and uncompressed length), then the compressed bytes.
write_compressed_data(p) ==
    {IF c.ok
     THEN [ok |-> TRUE,
           bytes |-> LeBytes(Len(c.buf), 4) \o LeBytes(Len(ColumnMajor(p)), 4) \o c.buf]
     ELSE Err("Compression failed") : c \in lzf_compress(ColumnMajor(p))}

\* --------------------------------------- fielddata.rs: assign_row, buffer
\* assign_row without the assert on the dtype.
assign_row_any_dtype(fd, row_idx, data, A) ==
    IF fd.count # Len(data) THEN Panic
    ELSE IF row_idx >= fd.npoints THEN Panic
    ELSE [fd EXCEPT !.data[row_idx + 1] = data]

\* FieldData::assign_row::<A>: the two asserts, then the row written.
assign_row(fd, row_idx, data, A) ==
    IF fd.count # Len(data) THEN Panic
    ELSE IF A # fd.dtype THEN Panic
    ELSE IF row_idx >= fd.npoints THEN Panic
    ELSE [fd EXCEPT !.data[row_idx + 1] = data]

\* assign_from_buffer with chunk i taken as element i of the array in
\* column-major order.
assign_from_buffer_column_major(fd, buffer) ==
    LET dsize == get_size(fd.dtype)
        Chunk(i) == SubSeq(buffer, i * dsize + 1, (i + 1) * dsize)
    IN IF Len(buffer) # FieldData_len(fd) * dsize THEN Panic
       ELSE [fd EXCEPT !.data =
                [r \in 1..fd.npoints |->
                    [c \in 1..fd.count |->
                        from_le_bytes(fd.dtype, Chunk((c - 1) * fd.npoints + (r - 1)))]]]

\* FieldData::assign_from_buffer: the assert on the length, then element i
\* of the array (in row-major order) decoded from chunk i of the buffer.
assign_from_buffer(fd, buffer) ==
    LET dsize == get_size(fd.dtype)
        Chunk(i) == SubSeq(buffer, i * dsize + 1, (i + 1) * dsize)
    IN IF Len(buffer) # FieldData_len(fd) * dsize THEN Panic
       ELSE [fd EXCEPT !.data =
                [r \in 1..fd.npoints |->
                    [c \in 1..fd.count |->
                        from_le_bytes(fd.dtype, Chunk((r - 1) * fd.count + (c - 1)))]]]

\* assign_row_from_buffer with the chunks of the buffer taken last first.
assign_row_from_buffer_reversed(fd, row_idx, buffer) ==
    LET dsize == get_size(fd.dtype)
        Chunk(i) == SubSeq(buffer, i * dsize + 1, (i + 1) * dsize)
    IN IF Len(buffer) # fd.count * dsize THEN Panic
       ELSE IF row_idx >= fd.npoints THEN Panic
       ELSE [fd EXCEPT !.data[row_idx + 1] =
                [c \in 1..fd.count |-> from_le_bytes(fd.dtype, Chunk(fd.count - c))]]

\* FieldData::assign_row_from_buffer: the assert on the length, then element
\* i of row row_idx decoded from chunk i of the buffer; slice_mut panics
\* on a row the array does not have.
assign_row_from_buffer(fd, row_idx, buffer) ==
    LET dsize == get_size(fd.dtype)
        Chunk(i) == SubSeq(buffer, i * dsize + 1, (i + 1) * dsize)
    IN IF Len(buffer) # fd.count * dsize THEN Panic
       ELSE IF row_idx >= fd.npoints THEN Panic
       ELSE [fd EXCEPT !.data[row_idx + 1] =
                [c \in 1..fd.count |-> from_le_bytes(fd.dtype, Chunk(c - 1))]]

\* ---------------------------------------------- pointcloud.rs: the loader
\* The result of a load step is [ok |-> TRUE, pc, pos] (pos the next line or
\* byte to read), an error [ok |-> FALSE, err, pc] that carries the cloud as
\* it is when the error returns, or a panic.
ErrAt(e, p) == [ok |-> FALSE, err |-> e, pc |-> p]

\* The index of the first non-blank line from pos on, Len(lines) + 1 when
\* there is none.
RECURSIVE SkipBlank(_, _)
SkipBlank(lines, pos) ==
    IF pos > Len(lines) \/ lines[pos] # <<>> THEN pos ELSE SkipBlank(lines, pos + 1)

\* The loop of read_line over the schema from entry j on: count tokens
\* parsed as the entry's dtype (a panic for a token that is not one) and
\* assigned to row idx of its store. pos is the line after this one.
RECURSIVE ReadLineFields(_, _, _, _, _)
ReadLineFields(p, j, values, pos, idx) ==
    IF j > Len(p.metadata.fields) THEN [ok |-> TRUE, pc |-> p, pos |-> pos]
    ELSE LET f == p.metadata.fields[j]
             vals == ParseAll(f.dtype, SubSeq(values, 1, f.count))
             row == IF AllSome(vals) /\ f.name \in DOMAIN p.fields
                    THEN assign_row(p.fields[f.name], idx, Vals(vals), f.dtype)
                    ELSE Panic
         IN IF IsPanic(row) THEN Panic
            ELSE ReadLineFields([p EXCEPT !.fields[f.name] = row], j + 1,
                                SubSeq(values, f.count + 1, Len(values)), pos, idx)

\* The part of read_line after the line is found: the check of the number
\* of values, then the loop over the schema.
ReadValues(p, values, pos, idx) ==
    IF Len(values) # Sum([j \in 1..Len(p.metadata.fields) |-> p.metadata.fields[j].count])
    THEN ErrAt("Invalid data line", p)
    ELSE ReadLineFields(p, 1, values, pos, idx)

read_line_keeps_blank_lines(p, lines, pos, idx) ==
    IF pos > Len(lines) THEN ErrAt("Unexpected EOF while reading data line", p)
    ELSE ReadValues(p, lines[pos], pos + 1, idx)

\* PointCloud::read_line
read_line(p, lines, pos, idx) ==
    IF SkipBlank(lines, pos) > Len(lines)
    THEN ErrAt("Unexpected EOF while reading data line", p)
    ELSE ReadValues(p, lines[SkipBlank(lines, pos)], SkipBlank(lines, pos) + 1, idx)

\* The loop of read_chunk over the schema from entry j on: count values of
\* the entry's size read from the bytes at pos (a panic at the end of the
\* file) and assigned to row idx of its store.
RECURSIVE ReadChunkFields(_, _, _, _, _)
ReadChunkFields(p, j, bytes, pos, idx) ==
    IF j > Len(p.metadata.fields) THEN [ok |-> TRUE, pc |-> p, pos |-> pos]
    ELSE LET f == p.metadata.fields[j]
             size == get_size(f.dtype)
             vals == [c \in 1..f.count |->
                         from_le_bytes(f.dtype, SubSeq(bytes, pos + (c - 1) * size,
                                                       pos + c * size - 1))]
             row == IF pos + f.count * size - 1 <= Len(bytes) /\ f.name \in DOMAIN p.fields
                    THEN assign_row(p.fields[f.name], idx, vals, f.dtype)
                    ELSE Panic
         IN IF IsPanic(row) THEN Panic
            ELSE ReadChunkFields([p EXCEPT !.fields[f.name] = row], j + 1, bytes,
                                 pos + f.count * size, idx)

read_chunk_from_the_start(p, bytes, pos, idx) ==
    ReadChunkFields(p, 1, bytes, 1, idx)

\* PointCloud::read_chunk
read_chunk(p, bytes, pos, idx) ==
    ReadChunkFields(p, 1, bytes, pos, idx)

\* The loop of read_compressed over the schema from entry j on: the next
\* block of the buffer handed to the store of the entry.
RECURSIVE ReadBlocks(_, _, _, _)
ReadBlocks(p, j, uncompressed_buf, offset) ==
    IF j > Len(p.metadata.fields) THEN [ok |-> TRUE, pc |-> p, pos |-> offset]
    ELSE LET f == p.metadata.fields[j]
             block_size == f.count * get_size(f.dtype) * p.metadata.npoints
             fd == IF offset + block_size <= Len(uncompressed_buf)
                      /\ f.name \in DOMAIN p.fields
                   THEN assign_from_buffer(p.fields[f.name],
                            SubSeq(uncompressed_buf, offset + 1, offset + block_size))
                   ELSE Panic
         IN IF IsPanic(fd) THEN Panic
            ELSE ReadBlocks([p EXCEPT !.fields[f.name] = fd], j + 1,
                            uncompressed_buf, offset + block_size)

\* PointCloud::read_compressed. The buffer the blocks are sliced from is
\* vec![0u8; uncompressed_size]; of the result of decompress only an error
\* is used.
read_compressed(p, bytes) ==
    IF Len(bytes) < 8 THEN ErrAt("failed to fill whole buffer", p)
    ELSE LET compressed_size == FromLe(SubSeq(bytes, 1, 4))
             uncompressed_size == FromLe(SubSeq(bytes, 5, 8))
             compressed_buf == SubSeq(bytes, 9, 8 + compressed_size)
             uncompressed_buf == [i \in 1..uncompressed_size |-> 0]
         IN IF Len(bytes) < 8 + compressed_size
            THEN ErrAt("failed to fill whole buffer", p)
            ELSE IF ~lzf_decompress(compressed_buf, uncompressed_size).ok
            THEN ErrAt(lzf_decompress(compressed_buf, uncompressed_size).err, p)
            ELSE ReadBlocks(p, 1, uncompressed_buf, 0)

\* The loop of from_pcd_file over the lines from row row_idx on, and the
\* end of one pass of it, r what read_line returned.
RECURSIVE ReadLines(_, _, _, _)
RECURSIVE NextLine(_, _, _)
ReadLines(p, lines, pos, row_idx) ==
    IF row_idx >= p.metadata.npoints THEN [ok |-> TRUE, pc |-> p, pos |-> pos]
    ELSE NextLine(read_line(p, lines, pos, row_idx), lines, row_idx)

NextLine(r, lines, row_idx) ==
    IF Failed(r) THEN r ELSE ReadLines(r.pc, lines, r.pos, row_idx + 1)

\* The loop of from_pcd_file over the chunks from row row_idx on, and the
\* end of one pass of it, r what read_chunk returned.
RECURSIVE ReadChunks(_, _, _, _)
RECURSIVE NextChunk(_, _, _)
ReadChunks(p, bytes, pos, row_idx) ==
    IF row_idx >= p.metadata.npoints THEN [ok |-> TRUE, pc |-> p, pos |-> pos]
    ELSE NextChunk(read_chunk(p, bytes, pos, row_idx), bytes, row_idx)

NextChunk(r, bytes, row_idx) ==
    IF Failed(r) THEN r ELSE ReadChunks(r.pc, bytes, r.pos, row_idx + 1)

\* The match on md.encoding of from_pcd_file.
ReadData(new, f, next) ==
    CASE new.metadata.encoding = "Ascii" -> ReadLines(new, f.lines, next, 0)
      [] new.metadata.encoding = "Binary" -> ReadChunks(new, f.bytes, 1, 0)
      [] new.metadata.encoding = "BinaryCompressed" -> read_compressed(new, f.bytes)

\* The end of from_pcd_file, r what reading the data gave: Ok(pc).
ReturnCloud(r) == IF Failed(r) THEN r ELSE [ok |-> TRUE, pc |-> r.pc]

\* from_pcd_file after load_metadata, h what it returned.
LoadData(h, f) ==
    IF Failed(h) THEN h ELSE ReturnCloud(ReadData(PointCloud_new(h.md), f, h.next))

\* PointCloud::from_pcd_file: [ok |-> TRUE, pc], an error or a panic.
from_pcd_file(f) == LoadData(load_metadata(f.lines), f)

\* PointCloud::to_pcd_file: todo!()
to_pcd_file(p) == Panic

\* write_header followed by the write_*_data of the cloud's encoding: what
\* the two calls can leave in the file.
WriteFile(p) ==
    LET header == write_header(p.metadata)
    IN CASE p.metadata.encoding = "Ascii" ->
              {[ok |-> TRUE, file |-> [lines |-> header \o write_ascii_data(p), bytes |-> <<>>]]}
         [] p.metadata.encoding = "Binary" ->
              {[ok |-> TRUE, file |-> [lines |-> header, bytes |-> write_binary_data(p)]]}
         [] p.metadata.encoding = "BinaryCompressed" ->
              {IF w.ok THEN [ok |-> TRUE, file |-> [lines |-> header, bytes |-> w.bytes]]
               ELSE w : w \in write_compressed_data(p)}

\* ------------------------------------------ SpecCodec: saving and loading
\* The clouds saved: PointCloud::new of a metadata with width * height =
\* npoints, every row assigned values of the field's dtype; and the cloud of
\* two points x y z with the values 1.0 .. 6.0.
CodecSchemas ==
    {<<[name |-> "x", dtype |-> d, count |-> c]>> : d \in Dtype, c \in 1..MaxCount}
    \cup {<<[name |-> "x", dtype |-> d, count |-> c],
            [name |-> "y", dtype |-> e, count |-> 1]>> :
              d \in Dtype, e \in {"I16", "F32"}, c \in 1..MaxCount}

CodecMetadatas ==
    {[fields |-> f, width |-> s.width, height |-> s.height,
      npoints |-> s.width * s.height, viewpoint |-> Identity,
      encoding |-> e, version |-> "0.7"] :
        f \in CodecSchemas, s \in Shapes, e \in Encodings}

\* Row r of entry j of the schema: samples of the dtype, different from one
\* row, one column and one field to the next.
Filled(md, seed) ==
    [metadata |-> md,
     fields |-> [n \in {md.fields[j].name : j \in 1..Len(md.fields)} |->
        LET j == FindField(md.fields, n)
            f == md.fields[j]
        IN [dtype |-> f.dtype, npoints |-> md.npoints, count |-> f.count,
            data |-> [r \in 1..md.npoints |->
                        [c \in 1..f.count |->
                            Samples(f.dtype)[((seed + j + r + 2 * c) % 3) + 1]]]]]]

ExampleClouds ==
    {[metadata |-> [fields |-> <<[name |-> "x", dtype |-> "F32", count |-> 1],
                                 [name |-> "y", dtype |-> "F32", count |-> 1],
                                 [name |-> "z", dtype |-> "F32", count |-> 1]>>,
                    width |-> 2, height |-> 1, npoints |-> 2, viewpoint |-> Identity,
                    encoding |-> e, version |-> "0.7"],
      fields |-> [n \in {"x", "y", "z"} |->
                    [dtype |-> "F32", npoints |-> 2, count |-> 1,
                     data |-> CASE n = "x" -> <<<<FloatOne>>, <<4 * FloatOne>>>>
                                [] n = "y" -> <<<<2 * FloatOne>>, <<5 * FloatOne>>>>
                                [] n = "z" -> <<<<3 * FloatOne>>, <<6 * FloatOne>>>>]]] :
        e \in Encodings}

Clouds ==
    {Filled(md, seed) : md \in CodecMetadatas, seed \in 0..MaxSeed} \cup ExampleClouds

NoFile == [lines |-> <<>>, bytes |-> <<>>]

InitCodec ==
    /\ pc \in Clouds
    /\ file = NoFile
    /\ store = Unused
    /\ meta = Unused
    /\ call = [op |-> "new"]
    /\ ret = [op |-> "none"]

\* pc.to_pcd_file(path)
ToPcdFile ==
    /\ call.op = "new"
    /\ ret' = to_pcd_file(pc)
    /\ call' = [op |-> "to_pcd_file"]
    /\ UNCHANGED <<store, pc, file, meta>>

\* write_header(w, md) and the write_*_data(w, pc) of md.encoding on a new
\* file.
Write ==
    /\ call.op = "new"
    /\ \E w \in WriteFile(pc) :
          /\ file' = IF w.ok THEN w.file ELSE file
          /\ ret' = IF w.ok THEN Ok ELSE w
    /\ call' = [op |-> "write"]
    /\ UNCHANGED <<store, pc, meta>>

RemoveAt(s, i) == SubSeq(s, 1, i - 1) \o SubSeq(s, i + 1, Len(s))
InsertAt(s, i, e) == SubSeq(s, 1, i - 1) \o <<e>> \o SubSeq(s, i, Len(s))

\* What an editor can make of a written file before it is loaded: a blank
\* line before a data line or at the end, a token removed from or added to
\* a data line, the last byte removed, a byte added. first is the index of
\* the first data line.
EditsFrom(f, first) ==
    {[f EXCEPT !.lines = InsertAt(@, k, <<>>)] : k \in first..(Len(f.lines) + 1)}
       \cup {[f EXCEPT !.lines[k] = RemoveAt(@, Len(@))] : k \in first..Len(f.lines)}
       \cup {[f EXCEPT !.lines[k] = Append(@, "7")] : k \in first..Len(f.lines)}
       \cup (IF f.bytes = <<>> THEN {}
             ELSE {[f EXCEPT !.bytes = RemoveAt(@, Len(@))],
                   [f EXCEPT !.bytes = Append(@, 0)]})

Edits(f) == EditsFrom(f, load_metadata(f.lines).next)

\* The file at the path is rewritten between the write and the load.
Edit ==
    /\ call.op = "write"
    /\ ret.ok
    /\ file' \in Edits(file)
    /\ call' = [op |-> "edit"]
    /\ UNCHANGED <<store, pc, ret, meta>>

\* PointCloud::from_pcd_file(path)
FromPcdFile ==
    /\ call.op \in {"write", "edit"}
    /\ call.op = "write" => ret.ok
    /\ ret' = from_pcd_file(file)
    /\ call' = [op |-> "from_pcd_file", edited |-> call.op = "edit"]
    /\ UNCHANGED <<store, pc, file, meta>>

NextCodec == ToPcdFile \/ Write \/ Edit \/ FromPcdFile

SpecCodec == InitCodec /\ [][NextCodec]_vars

\* ------------------------------------------------ claims on the codec
Loaded == call.op = "from_pcd_file"

\* The header of a file as the loader reads it.
Header(f) == load_metadata(f.lines)

\* The tokens, and the bytes, of the first j entries of a schema in one row.
TokensTo(schema, j) == Sum([k \in 1..j |-> schema[k].count])
BytesTo(schema, j) == Sum([k \in 1..j |-> schema[k].count * get_size(schema[k].dtype)])

\* Element c of row i of entry j of the schema in a loaded cloud (all from 1).
Element(p, md, i, j, c) == p.fields[md.fields[j].name].data[i][c]

Returned(r) == ~IsPanic(r) /\ r.ok

\* C1: for each of the three encodings and any point cloud that satisfies
\* the invariant set, saving the cloud (to_pcd_file: write_header followed by
\* the write_*_data of the encoding) and loading the result with
\* from_pcd_file gives, for every field, field data equal to the original.
C1_RoundTrip ==
    /\ call.op = "to_pcd_file" => ~IsPanic(ret)
    /\ (Loaded /\ ~call.edited) => (Returned(ret) /\ ret.pc.fields = pc.fields)

\* The buffer a binary_compressed payload decompresses to.
Decompressed(bytes) ==
    lzf_decompress(SubSeq(bytes, 9, 8 + FromLe(SubSeq(bytes, 1, 4))),
                   FromLe(SubSeq(bytes, 5, 8)))

\* The bytes of element c of row i of entry j in a column-major buffer.
ColumnChunk(buf, md, i, j, c) ==
    SubSeq(buf,
           md.npoints * BytesTo(md.fields, j - 1)
             + ((i - 1) * md.fields[j].count + (c - 1)) * get_size(md.fields[j].dtype) + 1,
           md.npoints * BytesTo(md.fields, j - 1)
             + ((i - 1) * md.fields[j].count + c) * get_size(md.fields[j].dtype))

C2_WellFormed(md, bytes) ==
    /\ md.encoding = "BinaryCompressed"
    /\ Len(bytes) >= 8
    /\ Len(bytes) >= 8 + FromLe(SubSeq(bytes, 1, 4))
    /\ Decompressed(bytes).ok
    /\ Len(Decompressed(bytes).buf) = md.npoints * BytesTo(md.fields, Len(md.fields))

\* C2: loading a binary_compressed payload, the decompressed buffer is read
\* column-major by field: every loaded value of every field is the
\* little-endian value at its column-major position in the decompressed
\* data.
C2_CompressedLoad ==
    (Loaded /\ C2_WellFormed(Header(file).md, file.bytes)) =>
        /\ Returned(ret)
        /\ \A j \in 1..Len(Header(file).md.fields) :
             \A i \in 1..Header(file).md.npoints :
               \A c \in 1..Header(file).md.fields[j].count :
                  to_le_bytes(Header(file).md.fields[j].dtype,
                              Element(ret.pc, Header(file).md, i, j, c))
                    = ColumnChunk(Decompressed(file.bytes).buf, Header(file).md, i, j, c)

\* The non-blank lines after the header.
NonBlank(lines, next) ==
    SelectSeq(SubSeq(lines, next, Len(lines)), LAMBDA l : l # <<>>)

\* The token of element c of entry j on a data line.
Token(line, md, j, c) == line[TokensTo(md.fields, j - 1) + c]

\* Row i of every field of p holds what the tokens of the line denote.
RowFromLine(p, md, i, line) ==
    \A j \in 1..Len(md.fields) : \A c \in 1..md.fields[j].count :
        Element(p, md, i, j, c) = parse(md.fields[j].dtype, Token(line, md, j, c)).val

\* The indices, among the lines the load reads, of those whose number of
\* tokens is not the sum of the counts.
BadLines(md, nb) ==
    {i \in 1..Min({md.npoints, Len(nb)}) :
        Len(nb[i]) # TokensTo(md.fields, Len(md.fields))}

\* Every token of a line of the right length denotes a value of its dtype.
TokensParse(md, nb) ==
    \A i \in (1..Min({md.npoints, Len(nb)})) \ BadLines(md, nb) :
        \A j \in 1..Len(md.fields) : \A c \in 1..md.fields[j].count :
            parse(md.fields[j].dtype, Token(nb[i], md, j, c)).some

C3_Rows(md, nb, r) ==
    IF BadLines(md, nb) # {}
    THEN /\ ~IsPanic(r)
         /\ ~r.ok
         /\ \A i \in 1..(Min(BadLines(md, nb)) - 1) : RowFromLine(r.pc, md, i, nb[i])
         /\ \A j \in 1..Len(md.fields) : \A c \in 1..md.fields[j].count :
               Element(r.pc, md, Min(BadLines(md, nb)), j, c) = 0
    ELSE Len(nb) >= md.npoints =>
            /\ Returned(r)
            /\ \A i \in 1..md.npoints : RowFromLine(r.pc, md, i, nb[i])

\* C3: loading an ascii payload, the tokens of the i-th non-blank data line
\* go to the fields in schema order, count(f) consecutive tokens to field f,
\* into row i of the field; a line whose number of tokens is not the sum of
\* the counts makes the load return an error, and its row is not assigned.
C3_AsciiLoad ==
    (Loaded /\ Header(file).md.encoding = "Ascii"
            /\ TokensParse(Header(file).md, NonBlank(file.lines, Header(file).next)))
        => C3_Rows(Header(file).md, NonBlank(file.lines, Header(file).next), ret)

\* The example of the schema x y z, with a blank line among the data lines.
C3_Witness ==
    /\ Loaded
    /\ call.edited
    /\ file.bytes = <<>>
    /\ <<>> \in {file.lines[k] : k \in 1..Len(file.lines)}
    /\ Len(NonBlank(file.lines, 1)) = 12
    /\ NonBlank(file.lines, 1)[11] = <<"1.000000", "2.000000", "3.000000">>
    /\ NonBlank(file.lines, 1)[12] = <<"4.000000", "5.000000", "6.000000">>
    /\ Returned(ret)
    /\ ret.pc.fields["x"].data = <<<<FloatOne>>, <<4 * FloatOne>>>>
    /\ ret.pc.fields["y"].data = <<<<2 * FloatOne>>, <<5 * FloatOne>>>>
    /\ ret.pc.fields["z"].data = <<<<3 * FloatOne>>, <<6 * FloatOne>>>>

\* The bytes of element c of entry j of point i in a binary payload.
RowChunk(bytes, md, i, j, c) ==
    SubSeq(bytes,
           (i - 1) * BytesTo(md.fields, Len(md.fields))
             + BytesTo(md.fields, j - 1) + (c - 1) * get_size(md.fields[j].dtype) + 1,
           (i - 1) * BytesTo(md.fields, Len(md.fields))
             + BytesTo(md.fields, j - 1) + c * get_size(md.fields[j].dtype))

\* The decimal numeral of a value: an integer as it is, a float in full.
Decimal(d, v) == IF IsFloat(d) THEN format_display(v) ELSE ToString(v)

\* The ascii file with the header schema and the numeric values of a binary
\* file.
AsciiTwin(md, bytes) ==
    [lines |-> write_header([md EXCEPT !.encoding = "Ascii"])
                 \o [i \in 1..md.npoints |->
                       Flatten([j \in 1..Len(md.fields) |->
                                  [c \in 1..md.fields[j].count |->
                                      Decimal(md.fields[j].dtype,
                                              from_le_bytes(md.fields[j].dtype,
                                                            RowChunk(bytes, md, i, j, c)))]])],
     bytes |-> <<>>]

C4_Rows(md, bytes, r, twin) ==
    /\ Returned(r)
    /\ \A j \in 1..Len(md.fields) : \A i \in 1..md.npoints :
         \A c \in 1..md.fields[j].count :
            to_le_bytes(md.fields[j].dtype, Element(r.pc, md, i, j, c))
              = RowChunk(bytes, md, i, j, c)
    /\ Returned(twin)
    /\ twin.pc.fields = r.pc.fields

\* C4: loading a binary payload, point i is one block of
\* sum(size_of(dtype(f)) * count(f)) bytes, the fields in schema order inside
\* it, each element decoded little-endian into row i of its field; and the
\* ascii file with the same schema and the same numeric values loads into
\* equal field data.
C4_BinaryLoad ==
    (Loaded /\ Header(file).md.encoding = "Binary"
            /\ Len(file.bytes) >= Header(file).md.npoints
                   * BytesTo(Header(file).md.fields, Len(Header(file).md.fields)))
        => C4_Rows(Header(file).md, file.bytes, ret,
                   from_pcd_file(AsciiTwin(Header(file).md, file.bytes)))

\* Two points of a field of two f64 and a field of one i16.
C4_Witness ==
    /\ Loaded
    /\ Header(file).md.encoding = "Binary"
    /\ Header(file).md.npoints = 2
    /\ Header(file).md.fields = <<[name |-> "x", dtype |-> "F64", count |-> 2],
                                  [name |-> "y", dtype |-> "I16", count |-> 1]>>
    /\ SubSeq(file.bytes, 17, 18) = <<254, 255>>
    /\ Len(file.bytes) = 36
    /\ Returned(ret)
    /\ ret.pc.fields["y"].data[1] = <<0 - 2>>
    /\ ret.pc.fields["x"].data[2][1] = 2 * FloatOne

\* ------------------------------------------- metadata.rs: Metadata::trim
\* (a as f32 / b as f32).ceil() as usize, for a and b small enough to be
\* exact as f32: the quotient rounded up; 0.0 / 0.0 is NaN, which casts to 0.
ceil_div_f32(a, b) ==
    CASE b > 0 -> (a + b - 1) \div b
      [] b = 0 /\ a = 0 -> 0

\* Metadata::trim
trim(m, n) ==
    [fields |-> m.fields,
     width |-> ceil_div_f32(n, m.height),
     height |-> ceil_div_f32(n, ceil_div_f32(n, m.height)),
     npoints |-> n,
     viewpoint |-> m.viewpoint, encoding |-> m.encoding, version |-> m.version]

\* ------------------------------------------ pymetadata.rs: the setters
\* PyMetadata::set_fields: [ok, md]
set_fields(m, new_fields) ==
    IF Len(new_fields) # Len(m.fields)
    THEN [ok |-> FALSE, err |-> "Length mismatch with existing field schema", md |-> m]
    ELSE [ok |-> TRUE,
          md |-> [m EXCEPT !.fields = [i \in 1..Len(m.fields) |->
                                          [m.fields[i] EXCEPT !.name = new_fields[i]]]]]

\* PyMetadata::set_shape: [ok, md]
set_shape(m, value) ==
    IF value[1] * value[2] # m.npoints
    THEN [ok |-> FALSE, err |-> "Shape must match number of points", md |-> m]
    ELSE [ok |-> TRUE, md |-> [m EXCEPT !.width = value[1], !.height = value[2]]]

\* --------------------------------------- pypointcloud.rs: PyPointCloud
\* PointCloud::len
len(p) == p.metadata.npoints

\* PointCloud::empty: the metadata and no field entries.
PointCloud_empty(m) == [metadata |-> m, fields |-> EmptyMap]

\* PySlice::indices(length) for a key of step >= 1: start and stop (None,
\* or an integer counted from the end when negative) clipped to 0..length.
Clip(idx, length, default) ==
    IF ~idx.some THEN default
    ELSE IF idx.val < 0 THEN (IF idx.val + length < 0 THEN 0 ELSE idx.val + length)
    ELSE IF idx.val > length THEN length ELSE idx.val

indices(key, length) ==
    [start |-> Clip(key.start, length, 0),
     stop |-> Clip(key.stop, length, length),
     step |-> IF key.step.some THEN key.step.val ELSE 1]

\* The slice branch of __getitem__ after the indices: the metadata cloned
\* and trimmed, an empty cloud of it, and the slice of every field inserted.
SliceCloud(p, start, stop, step) ==
    IF \E n \in DOMAIN p.fields : IsPanic(FieldData_slice(p.fields[n], start, stop, step))
    THEN Panic
    ELSE [ok |-> TRUE,
          pc |-> [metadata |-> trim(p.metadata, (stop - start) \div step),
                  fields |-> [n \in DOMAIN PointCloud_empty(p.metadata).fields
                                       \cup DOMAIN p.fields |->
                                FieldData_slice(p.fields[n], start, stop, step)]]]

\* PyPointCloud::__getitem__ with a slice key
getitem_slice(p, key) ==
    SliceCloud(p, indices(key, len(p)).start, indices(key, len(p)).stop,
               indices(key, len(p)).step)

\* A NumPy array as the class sees it: [dtype_name, shape, data], shape the
\* pair (rows, columns) and data the rows.
\* FieldData::from_pyarray: extract::<PyReadonlyArray2<T>>() is an error (a
\* TypeError) for an array of another element type than T.
from_pyarray(pyarray, dtype) ==
    IF pyarray.dtype_name # as_numpy_dtype(dtype)
    THEN Err("TypeError")
    ELSE [ok |-> TRUE,
          fd |-> [dtype |-> dtype, npoints |-> pyarray.shape[1],
                  count |-> pyarray.shape[2], data |-> pyarray.data]]

\* The end of infer_and_store_field, md the metadata after the validation:
\* the array converted and inserted.
StoreField(p, md, field_name, fd) ==
    IF ~fd.ok THEN [ret |-> fd, pc |-> [metadata |-> md, fields |-> p.fields]]
    ELSE [ret |-> Ok,
          pc |-> [metadata |-> md, fields |-> Insert(p.fields, field_name, fd.fd)]]

\* The part of infer_and_store_field after the dtype is inferred: the
\* validation against the schema entry i of the name (0: none, the entry is
\* pushed).
ValidateField(p, field_name, pyarray, dtype, i) ==
    IF i # 0 /\ p.metadata.fields[i].dtype # dtype
    THEN [ret |-> Err("Dtype mismatch"), pc |-> p]
    ELSE IF i # 0 /\ p.metadata.fields[i].count # pyarray.shape[2]
    THEN [ret |-> Err("Count mismatch"), pc |-> p]
    ELSE StoreField(p,
             IF i # 0 THEN p.metadata
             ELSE [p.metadata EXCEPT !.fields =
                      Append(@, [name |-> field_name, dtype |-> dtype,
                                 count |-> pyarray.shape[2]])],
             field_name, from_pyarray(pyarray, dtype))

infer_and_store_field_no_count_check(p, field_name, pyarray) ==
    IF field_name = "" THEN [ret |-> Err("Field name cannot be empty"), pc |-> p]
    ELSE IF pyarray.shape[1] # p.metadata.npoints
    THEN [ret |-> Err("Array length mismatch"), pc |-> p]
    ELSE IF ~from_numpy_dtype(pyarray.dtype_name).some
    THEN [ret |-> Err("Unsupported dtype"), pc |-> p]
    ELSE IF FindField(p.metadata.fields, field_name) # 0
            /\ p.metadata.fields[FindField(p.metadata.fields, field_name)].dtype
                  # from_numpy_dtype(pyarray.dtype_name).val
    THEN [ret |-> Err("Dtype mismatch"), pc |-> p]
    ELSE StoreField(p, p.metadata, field_name,
                    from_pyarray(pyarray, from_numpy_dtype(pyarray.dtype_name).val))

\* infer_and_store_field: [ret, pc], ret what the call returns and pc the
\* cloud after it.
infer_and_store_field(p, field_name, pyarray) ==
    IF field_name = "" THEN [ret |-> Err("Field name cannot be empty"), pc |-> p]
    ELSE IF pyarray.shape[1] # p.metadata.npoints
    THEN [ret |-> Err("Array length mismatch"), pc |-> p]
    ELSE IF ~from_numpy_dtype(pyarray.dtype_name).some
    THEN [ret |-> Err("Unsupported dtype"), pc |-> p]
    ELSE ValidateField(p, field_name, pyarray, from_numpy_dtype(pyarray.dtype_name).val,
                       FindField(p.metadata.fields, field_name))

\* The orders in which a loop over a HashMap can visit its keys.
Orders(S) ==
    {o \in [1..Cardinality(S) -> S] : \A i, j \in 1..Cardinality(S) : o[i] = o[j] => i = j}

\* The loop of the slice branch of __setitem__ over the fields of self from
\* the i-th of the order on, and the end of one pass, u what
\* update_slice_strided returned: an error returns at once.
RECURSIVE UpdateFields(_, _, _, _, _)
RECURSIVE UpdateNext(_, _, _, _, _, _)
UpdateFields(p, new_pc, order, i, r) ==
    IF i > Len(order) THEN [ret |-> Ok, pc |-> p]
    ELSE IF order[i] \notin DOMAIN new_pc.fields
    THEN UpdateFields(p, new_pc, order, i + 1, r)
    ELSE UpdateNext(update_slice_strided(p.fields[order[i]], new_pc.fields[order[i]],
                                         [start |-> r.start, end |-> r.stop], r.step,
                                         [start |-> 0, end |-> r.slice_len], 1),
                    p, new_pc, order, i, r)

UpdateNext(u, p, new_pc, order, i, r) ==
    IF u.res = "panic" THEN [ret |-> Panic, pc |-> p]
    ELSE IF u.res # "Ok" THEN [ret |-> Err(u.res), pc |-> p]
    ELSE UpdateFields([p EXCEPT !.fields[order[i]] = u.store], new_pc, order, i + 1, r)

\* The slice branch of __setitem__ after the indices: the outcomes [ret, pc]
\* the call can have, one per order of the loop over self.pc.fields.
\* slice_len is ((stop - start) as f64 / step as f64).ceil().
UpdateCloud(p, new_pc, start, stop, step, slice_len) ==
    IF len(new_pc) # slice_len
    THEN {[ret |-> Err("Slice length mismatch"), pc |-> p]}
    ELSE {UpdateFields(p, new_pc, order, 1,
                       [start |-> start, stop |-> stop, step |-> step,
                        slice_len |-> slice_len]) :
            order \in Orders(DOMAIN p.fields)}

\* PyPointCloud::__setitem__ with a slice key and a point cloud
setitem_slice(p, key, new_pc) ==
    UpdateCloud(p, new_pc, indices(key, len(p)).start, indices(key, len(p)).stop,
                indices(key, len(p)).step,
                (indices(key, len(p)).stop - indices(key, len(p)).start
                   + indices(key, len(p)).step - 1) \div indices(key, len(p)).step)

\* ------------------------------------ SpecPy: the Python point cloud
\* The clouds operated on satisfy the invariant set: PointCloud::new of a
\* metadata with width * height = npoints, every row assigned.
PyDtypes == {"U8", "I16", "F32", "F64"}

PySchemas ==
    {<<[name |-> "x", dtype |-> d, count |-> c]>> : d \in PyDtypes, c \in 1..MaxCount}
    \cup {<<[name |-> "x", dtype |-> d, count |-> c],
            [name |-> "y", dtype |-> e, count |-> 1]>> :
              d \in PyDtypes, e \in {"U8", "F32"}, c \in 1..MaxCount}

PyMetadatas ==
    {[fields |-> f, width |-> s.width, height |-> s.height,
      npoints |-> s.width * s.height, viewpoint |-> Identity,
      encoding |-> "BinaryCompressed", version |-> "0.7"] :
        f \in PySchemas, s \in Shapes}

PyClouds == {Filled(m, 0) : m \in PyMetadatas}

\* The metadata a caller builds: those of the clouds, and schemas that name
\* a field twice.
CallerMetadatas ==
    PyMetadatas
    \cup {[m EXCEPT !.fields = <<[name |-> "x", dtype |-> "U8", count |-> 1],
                                  [name |-> "x", dtype |-> d, count |-> MaxCount]>>] :
             m \in PyMetadatas, d \in {"U8", "F32"}}

\* The slice keys: start and stop None or an integer, a step >= 1.
Indexes(n) == {None} \cup {Some(v) : v \in (0 - 1)..(n + 1)}
Keys(n) == [start : Indexes(n), stop : Indexes(n),
            step : {None} \cup {Some(v) : v \in 1..MaxStep}]

\* Metadata::default
Metadata_default ==
    [fields |-> <<>>, width |-> 0, height |-> 1, npoints |-> 0, viewpoint |-> Identity,
     encoding |-> "BinaryCompressed", version |-> "0.7"]

\* The arrays assigned to a field: of the dtypes of the clouds and of one
\* NumPy dtype without a Dtype, of every shape.
Arrays ==
    {[dtype_name |-> as_numpy_dtype(d), shape |-> <<rows, cols>>,
      data |-> [r \in 1..rows |-> [c \in 1..cols |-> Samples(d)[((r + c) % 3) + 1]]]] :
        d \in PyDtypes, rows \in 0..MaxCloudPoints, cols \in 1..MaxCount}
    \cup {[dtype_name |-> "float16", shape |-> <<rows, cols>>,
           data |-> [r \in 1..rows |-> [c \in 1..cols |-> FloatOne]]] :
             rows \in 0..MaxCloudPoints, cols \in 1..MaxCount}

\* The dtype of schema entry i replaced by another.
OtherDtype(schema, i) ==
    [schema EXCEPT ![i].dtype = IF @ = "F32" THEN "F64" ELSE "F32"]

\* The donors of a slice update of p: clouds of every number of points whose
\* schema is p's, p's with the dtype of one field replaced, or p's without
\* its last field.
DonorSchemas(p) ==
    {p.metadata.fields, SubSeq(p.metadata.fields, 1, Len(p.metadata.fields) - 1)}
    \cup {OtherDtype(p.metadata.fields, i) : i \in 1..Len(p.metadata.fields)}

DonorClouds(p) ==
    {Filled([p.metadata EXCEPT !.fields = f, !.width = n, !.height = 1, !.npoints = n], 1) :
        f \in DonorSchemas(p), n \in 0..MaxCloudPoints}

\* The slice keys of an update: start and stop integers of 0..n.
UpdateKeys(n) == [start : {Some(v) : v \in 0..n}, stop : {Some(v) : v \in 0..n},
                  step : {Some(v) : v \in 1..MaxStep}]

InitPy ==
    /\ pc \in PyClouds
    /\ meta = Metadata_default
    /\ store = Unused
    /\ file = Unused
    /\ call = [op |-> "none"]
    /\ ret = [op |-> "none"]

\* PyPointCloud::from_metadata(metadata): the caller's metadata cloned under
\* the read lock, and PointCloud::new of the clone.
FromMetadata ==
    /\ call.op = "none"
    /\ \E m \in CallerMetadatas :
          /\ meta' = m
          /\ pc' = PointCloud_new(m)
          /\ call' = [op |-> "from_metadata", md |-> m]
    /\ ret' = Ok
    /\ UNCHANGED <<store, file>>

\* A setter of the caller's PyMetadata, or trim, after from_metadata.
MetaSet ==
    /\ call.op = "from_metadata"
    /\ \/ \E w \in 0..MaxCloudPoints, h \in 1..MaxCloudPoints :
             meta' = set_shape(meta, <<w, h>>).md
       \/ \E names \in {<<"a">>, <<"a", "b">>} : meta' = set_fields(meta, names).md
       \/ \E n \in 0..MaxCloudPoints : meta' = trim(meta, n)
    /\ call' = [op |-> "meta_set", md |-> call.md]
    /\ UNCHANGED <<store, pc, file, ret>>

\* PyPointCloud::__len__
Length ==
    /\ call.op \in {"from_metadata", "meta_set"}
    /\ ret' = [len |-> len(pc)]
    /\ call' = [op |-> "len", md |-> call.md]
    /\ UNCHANGED <<store, pc, meta, file>>

\* md.trim(n) on a clone of the cloud's metadata (as __getitem__ calls it).
Trim ==
    /\ call.op = "none"
    /\ \E n \in 0..(MaxCloudPoints + 1) :
          /\ call' = [op |-> "trim", self |-> pc.metadata, n |-> n]
          /\ ret' = trim(pc.metadata, n)
    /\ UNCHANGED <<store, pc, meta, file>>

\* pc[key] for a slice key whose start does not resolve past its stop.
GetItemSlice ==
    /\ call.op = "none"
    /\ \E key \in Keys(len(pc)) :
          /\ indices(key, len(pc)).start <= indices(key, len(pc)).stop
          /\ call' = [op |-> "getitem_slice", self |-> pc, key |-> key,
                      start |-> indices(key, len(pc)).start,
                      stop |-> indices(key, len(pc)).stop,
                      step |-> indices(key, len(pc)).step]
          /\ ret' = getitem_slice(pc, key)
    /\ UNCHANGED <<store, pc, meta, file>>

\* pc[field_name] = pyarray
SetItemStr ==
    /\ call.op = "none"
    /\ \E field_name \in {"", "x", "z"}, pyarray \in Arrays :
          /\ call' = [op |-> "setitem_str", self |-> pc, field_name |-> field_name,
                      pyarray |-> pyarray]
          /\ pc' = infer_and_store_field(pc, field_name, pyarray).pc
          /\ ret' = infer_and_store_field(pc, field_name, pyarray).ret
    /\ UNCHANGED <<store, meta, file>>

\* pc[key] = new_pc for a slice key whose start does not resolve past its
\* stop.
SetItemSlice ==
    /\ call.op = "none"
    /\ \E key \in UpdateKeys(len(pc)), new_pc \in DonorClouds(pc) :
          /\ indices(key, len(pc)).start <= indices(key, len(pc)).stop
          /\ \E out \in setitem_slice(pc, key, new_pc) :
                /\ pc' = out.pc
                /\ ret' = out.ret
          /\ call' = [op |-> "setitem_slice", self |-> pc, new_pc |-> new_pc,
                      start |-> indices(key, len(pc)).start,
                      stop |-> indices(key, len(pc)).stop,
                      step |-> indices(key, len(pc)).step]
    /\ UNCHANGED <<store, meta, file>>

NextPy ==
    FromMetadata \/ MetaSet \/ Length \/ Trim \/ GetItemSlice \/ SetItemStr \/ SetItemSlice

SpecPy == InitPy /\ [][NextPy]_vars

\* ------------------------------------- claims on the Python point cloud
\* C12: for every metadata with height >= 1 and every n >= 0, after trim(n)
\* the metadata has npoints == n and width * height == npoints, and fields,
\* viewpoint, encoding and version are unchanged.
C12_TrimRestoresShape ==
    (call.op = "trim" /\ call.self.height >= 1) =>
        /\ ret.npoints = call.n
        /\ ret.width * ret.height = ret.npoints
        /\ ret.fields = call.self.fields
        /\ ret.viewpoint = call.self.viewpoint
        /\ ret.encoding = call.self.encoding
        /\ ret.version = call.self.version

\* C11: slicing a cloud of n points with a key that resolves to
\* 0 <= start <= stop <= n and step >= 1 returns a new cloud in which every
\* field has exactly ceil((stop-start)/step) rows, copies of rows start,
\* start+step, ... of the source, metadata.npoints is that row count and
\* width * height == npoints; the source's fields and metadata are unchanged.
C11_SliceCloud ==
    (call.op = "getitem_slice" /\ InRange(call.start, call.stop, len(call.self))
                               /\ call.step >= 1) =>
        /\ Returned(ret)
        /\ DOMAIN ret.pc.fields = DOMAIN call.self.fields
        /\ \A n \in DOMAIN ret.pc.fields :
              /\ ret.pc.fields[n].npoints = Selected(call.start, call.stop, call.step)
              /\ Len(ret.pc.fields[n].data) = Selected(call.start, call.stop, call.step)
              /\ \A k \in 0..(Selected(call.start, call.stop, call.step) - 1) :
                    ret.pc.fields[n].data[k + 1]
                      = call.self.fields[n].data[call.start + k * call.step + 1]
        /\ ret.pc.metadata.npoints = Selected(call.start, call.stop, call.step)
        /\ ret.pc.metadata.width * ret.pc.metadata.height = ret.pc.metadata.npoints
        /\ pc = call.self

\* C20: PointCloud::new(md) creates exactly one field-map entry per schema
\* entry name, each zero-filled, of the dtype and the count of a schema entry
\* of that name (of the entry itself when the name occurs once) and of
\* md.npoints rows, and stores a private copy of md: whatever the caller
\* does to its md afterwards, the cloud's metadata is md as passed, and len()
\* returns md.npoints.
C20_NewAllocates ==
    (call.op \in {"from_metadata", "meta_set", "len"}) =>
        /\ DOMAIN pc.fields = {call.md.fields[i].name : i \in 1..Len(call.md.fields)}
        /\ \A n \in DOMAIN pc.fields :
              /\ pc.fields[n].npoints = call.md.npoints
              /\ pc.fields[n].data
                    = [r \in 1..call.md.npoints |-> [c \in 1..pc.fields[n].count |-> 0]]
              /\ \E i \in 1..Len(call.md.fields) :
                     /\ call.md.fields[i].name = n
                     /\ pc.fields[n].dtype = call.md.fields[i].dtype
                     /\ pc.fields[n].count = call.md.fields[i].count
        /\ \A i \in 1..Len(call.md.fields) :
              (\A j \in 1..Len(call.md.fields) :
                    call.md.fields[j].name = call.md.fields[i].name => j = i)
                 => /\ pc.fields[call.md.fields[i].name].dtype = call.md.fields[i].dtype
                    /\ pc.fields[call.md.fields[i].name].count = call.md.fields[i].count
        /\ pc.metadata = call.md
        /\ call.op = "len" => ret.len = call.md.npoints

\* len() of a cloud of two fields of two points whose caller has since
\* renamed the fields of its metadata.
C20_Witness ==
    /\ call.op = "len"
    /\ meta # call.md
    /\ meta.fields[1].name = "a"
    /\ ret.len = 2
    /\ DOMAIN pc.fields = {"x", "y"}
    /\ pc.fields["x"].count = MaxCount
    /\ pc.fields["x"].data[2] = [c \in 1..MaxCount |-> 0]


\* What C18 names: the array's row count differs from metadata.npoints, the
\* field is in the schema with another dtype or another count, or the name
\* is empty.
C18_Rejected ==
    \/ call.pyarray.shape[1] # call.self.metadata.npoints
    \/ call.field_name = ""
    \/ \E i \in 1..Len(call.self.metadata.fields) :
          /\ call.self.metadata.fields[i].name = call.field_name
          /\ \/ as_numpy_dtype(call.self.metadata.fields[i].dtype) # call.pyarray.dtype_name
             \/ call.self.metadata.fields[i].count # call.pyarray.shape[2]

\* C18: assigning an array to a field name returns an error (not a panic)
\* and leaves the field map and the schema unchanged when the array's row
\* count differs from metadata.npoints, when the field is in the schema with
\* a different dtype or count, and when the name is empty.
C18_AssignRejected ==
    (call.op = "setitem_str" /\ C18_Rejected) =>
        /\ ~IsPanic(ret)
        /\ ~ret.ok
        /\ pc = call.self

\* An array of the field's dtype and rows, with another number of columns.
C18_Witness ==
    /\ call.op = "setitem_str"
    /\ call.field_name = "x"
    /\ call.self.metadata.npoints = 2
    /\ call.pyarray.shape[1] = 2
    /\ call.pyarray.dtype_name = as_numpy_dtype(call.self.metadata.fields[1].dtype)
    /\ call.pyarray.shape[2] # call.self.metadata.fields[1].count
    /\ ~ret.ok
    /\ ret.err = "Count mismatch"
    /\ pc = call.self

\* C19: updating a row slice from a donor is all-or-nothing: if for some
\* field of the target the donor's field of that name has a different dtype,
\* or the donor's row count differs from the slice length, the operation
\* fails with an error and no field of the target has been modified.
C19_UpdateAllOrNothing ==
    (call.op = "setitem_slice"
       /\ \/ len(call.new_pc) # Selected(call.start, call.stop, call.step)
          \/ \E n \in DOMAIN call.self.fields \cap DOMAIN call.new_pc.fields :
                call.self.fields[n].dtype # call.new_pc.fields[n].dtype) =>
        /\ ~IsPanic(ret)
        /\ ~ret.ok
        /\ pc.fields = call.self.fields

\* ------------------------------- SpecHeader: files rewritten by hand
\* The files loaded: a cloud written by write_header and the write_*_data
\* of its encoding, then rewritten in one place. The lines of a written
\* header are 1 VERSION, 2 FIELDS, 3 SIZE, 4 TYPE, 5 COUNT, 6 WIDTH, 7 HEIGHT,
\* 8 VIEWPOINT, 9 POINTS, 10 DATA.
HeaderSchemas ==
    {<<[name |-> "x", dtype |-> "F32", count |-> 1]>>,
     <<[name |-> "x", dtype |-> "U8", count |-> MaxCount],
       [name |-> "y", dtype |-> "F32", count |-> 1]>>,
     <<[name |-> "x", dtype |-> "I16", count |-> 1],
       [name |-> "y", dtype |-> "F64", count |-> 1]>>}

HeaderClouds ==
    {Filled([fields |-> f, width |-> s.width, height |-> s.height,
             npoints |-> s.width * s.height, viewpoint |-> v,
             encoding |-> e, version |-> "0.7"], 0) :
        f \in HeaderSchemas, s \in {t \in Shapes : t.width >= 1},
        v \in {Identity, <<FloatOne, 2 * FloatOne, 0, FloatOne, 0, 0, 0>>},
        e \in Encodings}

\* The rewritings: lines i and j exchanged, the nine lines before DATA
\* reversed, line i removed, the file cut after line i, token j of line i
\* replaced, the last token of line i dropped, a token added to line i, the
\* last byte of the payload dropped.
Rewritings(f) ==
    {[kind |-> "none"], [kind |-> "reverse"]}
    \cup {[kind |-> "swap", i |-> i, j |-> j] : i \in 1..9, j \in 2..9}
    \cup {[kind |-> "remove", i |-> i] : i \in 1..9}
    \cup {[kind |-> "cut", i |-> i] : i \in {0, 5, 9}}
    \cup {[kind |-> "token", i |-> i, j |-> 2, tok |-> t] :
             i \in {3, 5, 6, 7, 8, 9}, t \in {"abc"}}
    \cup {[kind |-> "token", i |-> 3, j |-> 2, tok |-> "3"]}
    \cup {[kind |-> "token", i |-> 4, j |-> 2, tok |-> t] : t \in {"X", "F"}}
    \cup {[kind |-> "token", i |-> i, j |-> 1, tok |-> "abc"] : i \in 11..Len(f.lines)}
    \cup {[kind |-> "drop", i |-> i] : i \in {2, 3, 4, 5, 8}}
    \cup {[kind |-> "add", i |-> 2, tok |-> "w"], [kind |-> "add", i |-> 3, tok |-> "4"],
           [kind |-> "add", i |-> 4, tok |-> "F"], [kind |-> "add", i |-> 5, tok |-> "1"],
           [kind |-> "add", i |-> 8, tok |-> "0"]}
    \cup (IF f.bytes = <<>> THEN {} ELSE {[kind |-> "short"]})

Rewrite(f, e) ==
    CASE e.kind = "none" -> f
      [] e.kind = "reverse" ->
           [lines |-> [k \in 1..Len(f.lines) |-> IF k <= 9 THEN f.lines[10 - k] ELSE f.lines[k]],
            bytes |-> f.bytes]
      [] e.kind = "swap" ->
           [lines |-> [k \in 1..Len(f.lines) |->
                         IF k = e.i THEN f.lines[e.j]
                         ELSE IF k = e.j THEN f.lines[e.i] ELSE f.lines[k]],
            bytes |-> f.bytes]
      [] e.kind = "remove" -> [lines |-> RemoveAt(f.lines, e.i), bytes |-> f.bytes]
      [] e.kind = "cut" -> [lines |-> SubSeq(f.lines, 1, e.i), bytes |-> <<>>]
      [] e.kind = "token" -> [f EXCEPT !.lines[e.i][e.j] = e.tok]
      [] e.kind = "drop" -> [f EXCEPT !.lines[e.i] = RemoveAt(@, Len(@))]
      [] e.kind = "add" -> [f EXCEPT !.lines[e.i] = Append(@, e.tok)]
      [] e.kind = "short" -> [lines |-> f.lines, bytes |-> SubSeq(f.bytes, 1, Len(f.bytes) - 1)]

InitHeader ==
    /\ pc \in HeaderClouds
    /\ file = NoFile
    /\ store = Unused
    /\ meta = Unused
    /\ call = [op |-> "new"]
    /\ ret = [op |-> "none"]

\* The cloud written to a file and the file rewritten.
WriteRewritten ==
    /\ call.op = "new"
    /\ \E w \in {x \in WriteFile(pc) : x.ok} :
       \E e \in Rewritings(w.file) :
          /\ file' = Rewrite(w.file, e)
          /\ call' = [op |-> "write", edit |-> e]
    /\ UNCHANGED <<store, pc, meta, ret>>

\* load_metadata(&mut file)
LoadMetadata ==
    /\ call.op = "write"
    /\ ret' = load_metadata(file.lines)
    /\ call' = [op |-> "load_metadata", edit |-> call.edit]
    /\ UNCHANGED <<store, pc, meta, file>>

\* PointCloud::from_pcd_file(path)
LoadFile ==
    /\ call.op = "write"
    /\ ret' = from_pcd_file(file)
    /\ call' = [op |-> "from_pcd_file", edit |-> call.edit]
    /\ UNCHANGED <<store, pc, meta, file>>

NextHeader == WriteRewritten \/ LoadMetadata \/ LoadFile

SpecHeader == InitHeader /\ [][NextHeader]_vars

\* ------------------------------------------------ claims on the header
\* The key of each line before the DATA line.
HeaderKeys(lines) ==
    {lines[k][1] : k \in {j \in 1..Len(lines) :
                            \A i \in 1..j : lines[i] # <<>> /\ lines[i][1] # "DATA"}}

RequiredKeys == <<"VERSION", "FIELDS", "SIZE", "TYPE", "COUNT", "WIDTH", "HEIGHT", "POINTS">>

\* The rewritings that leave every line as written.
LinesKept == call.edit.kind \in {"none", "reverse", "swap", "remove"}

\* C13: header parsing succeeds exactly when each of VERSION, FIELDS, SIZE,
\* TYPE, COUNT, WIDTH, HEIGHT, POINTS appears, in any order, before the DATA
\* line: every permutation of the lines gives the same Metadata, a header
\* without one of them fails with an error naming the missing key, and a
\* header without VIEWPOINT gives the identity pose (0,0,0,1,0,0,0).
C13_HeaderKeys ==
    (call.op = "load_metadata" /\ LinesKept) =>
        /\ ~IsPanic(ret)
        /\ ret.ok <=> \A k \in 1..Len(RequiredKeys) : RequiredKeys[k] \in HeaderKeys(file.lines)
        /\ ret.ok =>
              /\ [ret.md EXCEPT !.viewpoint = pc.metadata.viewpoint] = pc.metadata
              /\ ret.md.viewpoint = IF "VIEWPOINT" \in HeaderKeys(file.lines)
                                     THEN pc.metadata.viewpoint
                                     ELSE <<0, 0, 0, FloatOne, 0, 0, 0>>
        /\ ~ret.ok =>
              \E k \in 1..Len(RequiredKeys) :
                 /\ RequiredKeys[k] \notin HeaderKeys(file.lines)
                 /\ ret.err = "Missing " \o RequiredKeys[k]

\* A header of two fields without its VIEWPOINT line: the pose written was
\* not the identity, the pose loaded is.
C13_Witness ==
    /\ call.op = "load_metadata"
    /\ call.edit = [kind |-> "remove", i |-> 8]
    /\ pc.metadata.viewpoint # Identity
    /\ Len(pc.metadata.fields) = 2
    /\ ret.ok
    /\ ret.md.viewpoint = Identity
    /\ ret.md.fields = pc.metadata.fields

\* The entries of the line of a key: its tokens after the key.
EntriesOf(lines, key) ==
    Len(lines[CHOOSE k \in 1..Len(lines) : lines[k] # <<>> /\ lines[k][1] = key]) - 1

\* The rewritings that drop an entry of one of the lists or add one.
ListsDiffer ==
    /\ call.edit.kind \in {"drop", "add"}
    /\ call.edit.i \in 2..5

\* C14: a header whose FIELDS, SIZE, TYPE and COUNT lines do not all list
\* the same number of entries is rejected with an error; the load never
\* returns a Metadata whose schema has fewer entries than the FIELDS line
\* has names.
C14_ListLengths ==
    (call.op = "load_metadata" /\ ListsDiffer) =>
        /\ ~IsPanic(ret)
        /\ ~ret.ok
        /\ ret.ok => Len(ret.md.fields) >= EntriesOf(file.lines, "FIELDS")

\* The malformed and the truncated files: a token that is no number where a
\* number is read, a VIEWPOINT line of six or eight numbers, a file that ends
\* before its DATA line or before the last byte of its payload.
Malformed ==
    \/ call.edit.kind = "token" /\ call.edit.tok = "abc"
    \/ call.edit.kind \in {"drop", "add"} /\ call.edit.i = 8
    \/ call.edit.kind \in {"cut", "short"}

\* C15: malformed or truncated input never aborts the load: a non-numeric
\* SIZE, COUNT, WIDTH, HEIGHT or POINTS token, a VIEWPOINT line without
\* exactly seven numbers, an unparsable token of an ascii data line, a file
\* that ends before the DATA line or before the last record of the payload
\* each make the load return an error value.
C15_MalformedReturnsError ==
    (call.op = "from_pcd_file" /\ Malformed) => (~IsPanic(ret) /\ ~ret.ok)

\* ------------------------------------- SpecDtype: the conversions
MaxSize == 9        \* the sizes a caller passes: 0..MaxSize

TypeTokens == {"U", "I", "F", "X"}

\* The names a caller passes: the ten of as_numpy_dtype and three others.
NumpyNames == {as_numpy_dtype(d) : d \in Dtype} \cup {"float16", "bool", "object"}

\* The header of a one-point file of one field x that declares TYPE t and
\* SIZE s for it.
DeclaringHeader(t, s) ==
    [write_header([fields |-> <<[name |-> "x", dtype |-> "F32", count |-> 1]>>,
                   width |-> 1, height |-> 1, npoints |-> 1, viewpoint |-> Identity,
                   encoding |-> "Ascii", version |-> "0.7"])
        EXCEPT ![3] = <<"SIZE", ToString(s)>>, ![4] = <<"TYPE", t>>]

InitDtype ==
    /\ call \in [op : {"none"}, d : Dtype, t : TypeTokens, s : 0..MaxSize, name : NumpyNames]
    /\ ret = [op |-> "none"]
    /\ store = Unused
    /\ pc = Unused
    /\ meta = Unused
    /\ file = NoFile

\* Dtype::from_type_size(t, &s)
FromTypeSize ==
    /\ call.op = "none"
    /\ ret' = [val |-> from_type_size(call.t, call.s)]
    /\ call' = [call EXCEPT !.op = "from_type_size"]
    /\ UNCHANGED <<store, pc, meta, file>>

\* Dtype::from_numpy_dtype(name)
FromNumpyDtype ==
    /\ call.op = "none"
    /\ ret' = [val |-> from_numpy_dtype(call.name)]
    /\ call' = [call EXCEPT !.op = "from_numpy_dtype"]
    /\ UNCHANGED <<store, pc, meta, file>>

\* Dtype::from_type_size(d.get_type(), &d.get_size())
TypeSizeRoundTrip ==
    /\ call.op = "none"
    /\ ret' = [type |-> get_type(call.d), size |-> get_size(call.d),
               val |-> from_type_size(get_type(call.d), get_size(call.d))]
    /\ call' = [call EXCEPT !.op = "type_size"]
    /\ UNCHANGED <<store, pc, meta, file>>

\* Dtype::from_numpy_dtype(d.as_numpy_dtype())
NumpyRoundTrip ==
    /\ call.op = "none"
    /\ ret' = [name |-> as_numpy_dtype(call.d),
               val |-> from_numpy_dtype(as_numpy_dtype(call.d))]
    /\ call' = [call EXCEPT !.op = "numpy"]
    /\ UNCHANGED <<store, pc, meta, file>>

\* load_metadata on a header that declares TYPE t and SIZE s
LoadDeclared ==
    /\ call.op = "none"
    /\ ret' = [val |-> load_metadata(DeclaringHeader(call.t, call.s))]
    /\ call' = [call EXCEPT !.op = "load_metadata"]
    /\ UNCHANGED <<store, pc, meta, file>>

NextDtype ==
    FromTypeSize \/ FromNumpyDtype \/ TypeSizeRoundTrip \/ NumpyRoundTrip \/ LoadDeclared

SpecDtype == InitDtype /\ [][NextDtype]_vars

\* ---------------------------------------------- claims on the dtypes
\* The ten pairs of a dtype.
ValidPairs == {<<get_type(d), get_size(d)>> : d \in Dtype}

\* C16: resolving a (category, size) pair outside the ten valid ones
\* returns an error to the caller, resolving a name outside the ten
\* canonical ones fails, and loading a header that declares such a pair
\* returns an error.
C16_UnsupportedIsError ==
    /\ (call.op = "from_type_size" /\ <<call.t, call.s>> \notin ValidPairs) =>
          (~IsPanic(ret.val) /\ "err" \in DOMAIN ret.val)
    /\ (call.op = "from_numpy_dtype" /\ call.name \notin {as_numpy_dtype(d) : d \in Dtype}) =>
          ret.val = None
    /\ (call.op = "load_metadata" /\ <<call.t, call.s>> \notin ValidPairs) =>
          (~IsPanic(ret.val) /\ ~ret.val.ok)

\* C17: for each of the ten dtypes d, from_type_size(get_type(d),
\* get_size(d)) is d and from_numpy_dtype(as_numpy_dtype(d)) is Some(d);
\* get_size(d) is one of 1, 2, 4, 8 and get_type(d) one of U, I, F; no other
\* dtype has the pair of d or the name of d.
C17_DtypeRoundTrips ==
    /\ call.op = "type_size" =>
          /\ ret.val = [dtype |-> call.d]
          /\ ret.size \in {1, 2, 4, 8}
          /\ ret.type \in {"U", "I", "F"}
          /\ \A e \in Dtype \ {call.d} : <<get_type(e), get_size(e)>> # <<ret.type, ret.size>>
    /\ call.op = "numpy" =>
          /\ ret.val = Some(call.d)
          /\ \A e \in Dtype \ {call.d} : as_numpy_dtype(e) # ret.name

\* F64 has gone through (F, 8) and come back.
C17_Witness ==
    /\ call.op = "type_size"
    /\ call.d = "F64"
    /\ ret.type = "F"
    /\ ret.size = 8
    /\ ret.val = [dtype |-> "F64"]

\* ---------------------------- SpecBuffer: rows and buffers assigned
\* The stores are standard-layout arrays, as FieldData::new and
\* FieldData::slice make them.
\* k values of dtype d, the samples of d in turn from the one after sample o.
SampleValues(d, k, o) == [i \in 1..k |-> Samples(d)[((i + o) % 3) + 1]]

\* The buffers passed for k elements of dtype d: the bytes of k values, of
\* one value less and of one more, and the bytes of k values with the last
\* byte dropped and with a byte added.
Buffers(d, k) ==
    LET Bytes(n, o) == Flatten([i \in 1..n |-> to_le_bytes(d, SampleValues(d, n, o)[i])])
    IN UNION {{Bytes(k, o), Bytes(k + 1, o), Bytes(k, o) \o <<0>>}
              \cup (IF k = 0 THEN {}
                    ELSE {Bytes(k - 1, o), SubSeq(Bytes(k, o), 1, Len(Bytes(k, o)) - 1)}) :
              o \in 0..MaxSeed}

InitBuffer ==
    /\ store \in Stores
    /\ pc = Unused
    /\ file = Unused
    /\ meta = Unused
    /\ call = [op |-> "none"]
    /\ ret = [op |-> "none"]

\* field.assign_row::<A>(row_idx, &data)
AssignRow ==
    /\ call.op = "none"
    /\ \E row_idx \in 0..store.npoints, o \in 0..MaxSeed :
       \E A \in {store.dtype, IF store.dtype = "F32" THEN "I32" ELSE "F32"} :
       \E k \in {store.count - 1, store.count, store.count + 1} :
          LET data == SampleValues(A, k, o)
              out == assign_row(store, row_idx, data, A)
          IN /\ call' = [op |-> "assign_row", self |-> store, row_idx |-> row_idx,
                         data |-> data, A |-> A]
             /\ store' = IF IsPanic(out) THEN store ELSE out
             /\ ret' = [res |-> IF IsPanic(out) THEN Panic ELSE Ok]
    /\ UNCHANGED <<pc, file, meta>>

\* field.assign_from_buffer(&buffer)
AssignFromBuffer ==
    /\ call.op = "none"
    /\ \E buffer \in Buffers(store.dtype, store.npoints * store.count) :
          LET out == assign_from_buffer(store, buffer)
          IN /\ call' = [op |-> "assign_from_buffer", self |-> store, buffer |-> buffer]
             /\ store' = IF IsPanic(out) THEN store ELSE out
             /\ ret' = [res |-> IF IsPanic(out) THEN Panic ELSE Ok]
    /\ UNCHANGED <<pc, file, meta>>

\* field.assign_row_from_buffer(row_idx, &buffer)
AssignRowFromBuffer ==
    /\ call.op = "none"
    /\ \E row_idx \in 0..store.npoints :
       \E buffer \in Buffers(store.dtype, store.count) :
          LET out == assign_row_from_buffer(store, row_idx, buffer)
          IN /\ call' = [op |-> "assign_row_from_buffer", self |-> store,
                         row_idx |-> row_idx, buffer |-> buffer]
             /\ store' = IF IsPanic(out) THEN store ELSE out
             /\ ret' = [res |-> IF IsPanic(out) THEN Panic ELSE Ok]
    /\ UNCHANGED <<pc, file, meta>>

NextBuffer == AssignRow \/ AssignFromBuffer \/ AssignRowFromBuffer

SpecBuffer == InitBuffer /\ [][NextBuffer]_vars

\* ------------------------------------------------ claims on the buffers
\* Bytes i*s+1 .. (i+1)*s of the buffer of the call, s the element size.
ChunkOf(i) ==
    SubSeq(call.buffer, i * get_size(call.self.dtype) + 1,
           (i + 1) * get_size(call.self.dtype))

\* Whether the store has the shape and the dtype it had before the call.
SameShape ==
    /\ store.dtype = call.self.dtype
    /\ store.npoints = call.self.npoints
    /\ store.count = call.self.count

\* C21: assign_from_buffer(bytes) on a store of shape (npoints, count) and
\* element size s fails without modifying the store when bytes.len() is not
\* npoints*count*s; otherwise element (r, c) becomes the little-endian value
\* of bytes[(r*count + c)*s .. (r*count + c + 1)*s] for every r and c.
C21_AssignFromBuffer ==
    call.op = "assign_from_buffer" =>
        IF Len(call.buffer) # call.self.npoints * call.self.count * get_size(call.self.dtype)
        THEN IsPanic(ret.res) /\ store = call.self
        ELSE /\ ~IsPanic(ret.res)
             /\ SameShape
             /\ \A r \in 0..(store.npoints - 1), c \in 0..(store.count - 1) :
                   to_le_bytes(store.dtype, store.data[r + 1][c + 1]) = ChunkOf(r * store.count + c)

\* A 3 x 2 store of U16 loaded from twelve bytes: element (1, 0) is the
\* third value of the buffer, not the second.
C21_Witness ==
    /\ call.op = "assign_from_buffer"
    /\ call.self.dtype = "U16"
    /\ call.self.npoints = 3
    /\ call.self.count = 2
    /\ Len(call.buffer) = 12
    /\ ~IsPanic(ret.res)
    /\ store.data[2][1] = FromLe(SubSeq(call.buffer, 5, 6))
    /\ store.data[2][1] # FromLe(SubSeq(call.buffer, 3, 4))
    /\ store # call.self

\* C22: assign_row_from_buffer(row_idx, bytes) with bytes.len() = count*s
\* sets element (row_idx, c) to the little-endian value of chunk c of the
\* bytes for every column c and leaves every other row, the shape and the
\* dtype unchanged; with another length it fails without modifying the store.
C22_AssignRowFromBuffer ==
    (call.op = "assign_row_from_buffer" /\ call.row_idx < call.self.npoints) =>
        IF Len(call.buffer) # call.self.count * get_size(call.self.dtype)
        THEN IsPanic(ret.res) /\ store = call.self
        ELSE /\ ~IsPanic(ret.res)
             /\ SameShape
             /\ \A c \in 0..(store.count - 1) :
                   to_le_bytes(store.dtype, store.data[call.row_idx + 1][c + 1]) = ChunkOf(c)
             /\ \A r \in 1..store.npoints :
                   r # call.row_idx + 1 => store.data[r] = call.self.data[r]

\* Row 1 of a 3 x 2 store of I16 loaded from four bytes that hold two
\* different values.
C22_Witness ==
    /\ call.op = "assign_row_from_buffer"
    /\ call.self.dtype = "I16"
    /\ call.self.count = 2
    /\ call.row_idx = 1
    /\ Len(call.buffer) = 4
    /\ ~IsPanic(ret.res)
    /\ store.data[2][1] # store.data[2][2]
    /\ store.data[2] # call.self.data[2]
    /\ store.data[1] = call.self.data[1]

\* C23: assign_row<T>(row_idx, values) with values.len() = count and T the
\* dtype of the store overwrites row row_idx so that get_row<T>(row_idx)
\* returns values, with npoints, count, dtype and every other row unchanged;
\* with a wrong length or a T of another dtype it fails and modifies nothing.
C23_AssignRow ==
    (call.op = "assign_row" /\ call.row_idx < call.self.npoints) =>
        IF Len(call.data) # call.self.count \/ call.A # call.self.dtype
        THEN IsPanic(ret.res) /\ store = call.self
        ELSE /\ ~IsPanic(ret.res)
             /\ SameShape
             /\ get_row(store, call.row_idx) = call.data
             /\ \A r \in 1..store.npoints :
                   r # call.row_idx + 1 => store.data[r] = call.self.data[r]

\* Row 2 of a 3 x 2 store of F32 overwritten.
C23_Witness ==
    /\ call.op = "assign_row"
    /\ call.self.dtype = "F32"
    /\ call.self.count = 2
    /\ call.row_idx = 2
    /\ ~IsPanic(ret.res)
    /\ get_row(store, 2) = call.data
    /\ get_row(store, 2) # get_row(call.self, 2)
    /\ get_row(store, 1) = get_row(call.self, 1)

\* ------------------------------------------- claims on the written header
HeaderOrder ==
    <<"VERSION", "FIELDS", "SIZE", "TYPE", "COUNT", "WIDTH", "HEIGHT", "VIEWPOINT",
      "POINTS", "DATA">>

\* C24: write_header emits exactly ten lines, in the order VERSION, FIELDS,
\* SIZE, TYPE, COUNT, WIDTH, HEIGHT, VIEWPOINT, POINTS, DATA, one key per line;
\* the FIELDS, SIZE, TYPE and COUNT lines list one entry per schema field in
\* schema order, VIEWPOINT has seven values, and DATA has the lower-case name
\* of the encoding and is the last line of the header.
C24_HeaderLines ==
    (call.op = "write" /\ ret.ok) =>
        LET md == pc.metadata
            n == Len(md.fields)
        IN /\ Len(file.lines) >= 10
           /\ [k \in 1..10 |-> file.lines[k][1]] = HeaderOrder
           /\ \A k \in 11..Len(file.lines) :
                 file.lines[k] # <<>> => file.lines[k][1] \notin {HeaderOrder[j] : j \in 1..10}
           /\ md.encoding # "Ascii" => Len(file.lines) = 10
           /\ Tail(file.lines[2]) = [i \in 1..n |-> md.fields[i].name]
           /\ Tail(file.lines[3]) = [i \in 1..n |-> ToString(get_size(md.fields[i].dtype))]
           /\ Tail(file.lines[4]) = [i \in 1..n |-> get_type(md.fields[i].dtype)]
           /\ Tail(file.lines[5]) = [i \in 1..n |-> ToString(md.fields[i].count)]
           /\ Len(file.lines[8]) = 8
           /\ Len(file.lines[10]) = 2
           /\ \/ md.encoding = "Ascii" /\ file.lines[10][2] = "ascii"
              \/ md.encoding = "Binary" /\ file.lines[10][2] = "binary"
              \/ md.encoding = "BinaryCompressed" /\ file.lines[10][2] = "binary_compressed"

\* The header of a binary cloud of two fields, the first of I16 x 2.
C24_Witness ==
    /\ call.op = "write"
    /\ ret.ok
    /\ pc.metadata.encoding = "Binary"
    /\ Len(pc.metadata.fields) = 2
    /\ file.lines[2] = <<"FIELDS", "x", "y">>
    /\ file.lines[3] = <<"SIZE", "2", "4">>
    /\ file.lines[4] = <<"TYPE", "I", "F">>
    /\ file.lines[5] = <<"COUNT", "2", "1">>
    /\ file.lines[10] = <<"DATA", "binary">>
    /\ Len(file.lines) = 10

\* ----------------------------- SpecRoundTrip: a header written and parsed
\* The metadata a caller can build with Metadata::new or through the
\* setters: any strings as names and version.
RoundTripSchemas ==
    LET first == [name : {"x", "a b", "", "x#"}, dtype : Dtype, count : 1..MaxCount]
        second == {<<>>, <<[name |-> "y", dtype |-> "F32", count |-> 1]>>,
                   <<[name |-> "z", dtype |-> "I16", count |-> MaxCount]>>}
    IN {<<>>} \cup {<<f>> \o s : f \in first, s \in second}

RoundTripMetadatas ==
    {[fields |-> f, width |-> s.width, height |-> s.height,
      npoints |-> s.width * s.height, viewpoint |-> Identity,
      encoding |-> e, version |-> v] :
        f \in RoundTripSchemas, s \in Shapes, e \in Encodings, v \in {"0.7", "0.7 rc"}}

InitRoundTrip ==
    /\ meta \in RoundTripMetadatas
    /\ store = Unused
    /\ pc = Unused
    /\ file = NoFile
    /\ call = [op |-> "none"]
    /\ ret = [op |-> "none"]

\* write_header(&mut w, &md) on a new file
WriteHeader ==
    /\ call.op = "none"
    /\ file' = [lines |-> write_header(meta), bytes |-> <<>>]
    /\ call' = [op |-> "write_header"]
    /\ UNCHANGED <<store, pc, meta, ret>>

\* load_metadata(&mut file) on the file written
ParseHeader ==
    /\ call.op = "write_header"
    /\ ret' = load_metadata(file.lines)
    /\ call' = [op |-> "load_metadata"]
    /\ UNCHANGED <<store, pc, meta, file>>

NextRoundTrip == WriteHeader \/ ParseHeader

SpecRoundTrip == InitRoundTrip /\ [][NextRoundTrip]_vars

\* C30: for every Metadata with at least one field, every count >= 1 and a
\* version free of whitespace and '#', load_metadata of what write_header
\* wrote returns a Metadata with the same field names, dtypes, counts and
\* field order, the same width, height and npoints, the same encoding and
\* the same version.
C30_HeaderRoundTrip ==
    (/\ call.op = "load_metadata"
     /\ Len(meta.fields) >= 1
     /\ \A i \in 1..Len(meta.fields) : meta.fields[i].count >= 1
     /\ Words(meta.version) = <<meta.version>>) =>
        /\ ~IsPanic(ret)
        /\ ret.ok
        /\ ret.md.fields = meta.fields
        /\ ret.md.width = meta.width
        /\ ret.md.height = meta.height
        /\ ret.md.npoints = meta.npoints
        /\ ret.md.encoding = meta.encoding
        /\ ret.md.version = meta.version

\* ------------------------- SpecLock: threads on one metadata cell
\* meta is the Metadata in the cell, call.lock the lock of the cell and
\* call.thread[t] where thread t is in its operation. metadata.rs declares
\* the cell Arc<RwLock<Metadata>> and pymetadata.rs, io.rs and
\* pypointcloud.rs take it with read() and write(); pointcloud.rs builds it
\* with Mutex::new and takes it with lock(). The lock is one or the other:
\* under "Mutex" every acquisition is exclusive, under "RwLock" lock() is a
\* read acquisition.
Threads == {1, 2}

LockKinds == {"RwLock", "Mutex"}

\* The lock nobody holds: writer 0, no read guard of any thread.
Unlocked(kind) == [kind |-> kind, writer |-> 0, readers |-> [t \in Threads |-> 0]]

\* Whether thread t holds a guard of the lock.
Holds(lock, t) == lock.writer = t \/ lock.readers[t] > 0

\* A read acquisition that does not wait for the writer.
CanRead_beside_writer(lock, t) == lock.writer # t

\* RwLock::read / Mutex::lock: whether the acquisition returns.
CanRead(lock, t) ==
    IF lock.kind = "Mutex"
    THEN lock.writer = 0 /\ \A u \in Threads : lock.readers[u] = 0
    ELSE lock.writer = 0

\* RwLock::write / Mutex::lock: whether the acquisition returns.
CanWrite(lock, t) == lock.writer = 0 /\ \A u \in Threads : lock.readers[u] = 0

\* The guard taken and dropped.
TakeRead(lock, t) == [lock EXCEPT !.readers[t] = @ + 1]
DropRead(lock, t) == [lock EXCEPT !.readers[t] = @ - 1]
TakeWrite(lock, t) == [lock EXCEPT !.writer = t]
DropWrite(lock, t) == [lock EXCEPT !.writer = 0]

Idle == [at |-> "idle", value |-> <<0, 0>>, seen |-> <<0, 0>>]

LockMetadatas == {m \in PyMetadatas : Len(m.fields) = 1 /\ m.fields[1].dtype = "F64"}

InitLock ==
    /\ meta \in LockMetadatas
    /\ call \in {[lock |-> Unlocked(k), thread |-> [t \in Threads |-> Idle]] : k \in LockKinds}
    /\ ret = [t \in Threads |-> [op |-> "none"]]
    /\ store = Unused
    /\ pc = Unused
    /\ file = Unused

\* Thread t goes from one place of its operation to the next.
Goto(t, at) == [call EXCEPT !.thread[t].at = at]

\* A thread calls an operation: view.shape, view.shape = value, pc[[names]],
\* pc[[names]] = array, write_binary_data(w, pc).
Call(t) ==
    /\ call.thread[t].at = "idle"
    /\ \/ \E at \in {"get_shape", "getitem_list", "setitem_list", "write_binary_data"} :
             call' = Goto(t, at)
       \/ \E w \in 0..MaxCloudPoints, h \in 1..MaxCloudPoints :
             call' = [call EXCEPT !.thread[t] = [at |-> "set_shape", value |-> <<w, h>>,
                                                 seen |-> <<0, 0>>]]
    /\ ret' = [ret EXCEPT ![t] = [op |-> "none"]]
    /\ UNCHANGED <<store, pc, meta, file>>

\* get_shape: let md = self.inner.read().unwrap();
GetShapeRead(t) ==
    /\ call.thread[t].at = "get_shape"
    /\ CanRead(call.lock, t)
    /\ call' = [call EXCEPT !.lock = TakeRead(@, t), !.thread[t].at = "get_shape_width"]
    /\ UNCHANGED <<store, pc, meta, file, ret>>

\* get_shape: md.width
GetShapeWidth(t) ==
    /\ call.thread[t].at = "get_shape_width"
    /\ call' = [call EXCEPT !.thread[t].at = "get_shape_height",
                            !.thread[t].seen = <<meta.width, 0>>]
    /\ UNCHANGED <<store, pc, meta, file, ret>>

\* get_shape: md.height, the pair returned and the guard dropped
GetShapeReturn(t) ==
    /\ call.thread[t].at = "get_shape_height"
    /\ ret' = [ret EXCEPT ![t] = [op |-> "get_shape",
                                  shape |-> <<call.thread[t].seen[1], meta.height>>]]
    /\ call' = [call EXCEPT !.lock = DropRead(@, t), !.thread[t] = Idle]
    /\ UNCHANGED <<store, pc, meta, file>>

\* set_shape: let mut md = self.inner.write().unwrap();
SetShapeWrite(t) ==
    /\ call.thread[t].at = "set_shape"
    /\ CanWrite(call.lock, t)
    /\ call' = [call EXCEPT !.lock = TakeWrite(@, t), !.thread[t].at = "set_shape_check",
                            !.thread[t].seen = <<meta.width, meta.height>>]
    /\ UNCHANGED <<store, pc, meta, file, ret>>

\* set_shape: the check of value.0 * value.1 against md.npoints; the error
\* returned and the guard dropped
SetShapeCheck(t) ==
    /\ call.thread[t].at = "set_shape_check"
    /\ IF call.thread[t].value[1] * call.thread[t].value[2] # meta.npoints
       THEN /\ ret' = [ret EXCEPT ![t] = [op |-> "set_shape", ok |-> FALSE,
                                          value |-> call.thread[t].value,
                                          before |-> call.thread[t].seen,
                                          after |-> <<meta.width, meta.height>>]]
            /\ call' = [call EXCEPT !.lock = DropWrite(@, t), !.thread[t] = Idle]
       ELSE /\ call' = Goto(t, "set_shape_width")
            /\ ret' = ret
    /\ UNCHANGED <<store, pc, meta, file>>

\* set_shape: md.width = value.0;
SetShapeWidth(t) ==
    /\ call.thread[t].at = "set_shape_width"
    /\ meta' = [meta EXCEPT !.width = call.thread[t].value[1]]
    /\ call' = Goto(t, "set_shape_height")
    /\ UNCHANGED <<store, pc, file, ret>>

\* set_shape: md.height = value.1; Ok(()) and the guard dropped
SetShapeHeight(t) ==
    /\ call.thread[t].at = "set_shape_height"
    /\ meta' = [meta EXCEPT !.height = call.thread[t].value[2]]
    /\ ret' = [ret EXCEPT ![t] = [op |-> "set_shape", ok |-> TRUE,
                                  value |-> call.thread[t].value,
                                  before |-> call.thread[t].seen,
                                  after |-> call.thread[t].value]]
    /\ call' = [call EXCEPT !.lock = DropWrite(@, t), !.thread[t] = Idle]
    /\ UNCHANGED <<store, pc, file>>

\* __getitem__, list branch: let md = self.pc.metadata.read().unwrap();
GetItemListRead(t) ==
    /\ call.thread[t].at = "getitem_list"
    /\ CanRead(call.lock, t)
    /\ call' = [call EXCEPT !.lock = TakeRead(@, t), !.thread[t].at = "getitem_list_len"]
    /\ UNCHANGED <<store, pc, meta, file, ret>>

\* __getitem__, list branch: self.pc.len(), which is
\* self.metadata.lock().unwrap() with md still alive, md.npoints and the
\* guard of len dropped.
GetItemListLen(t) ==
    /\ call.thread[t].at = "getitem_list_len"
    /\ CanRead(call.lock, t)
    /\ call' = Goto(t, "getitem_list_copy")
    /\ UNCHANGED <<store, pc, meta, file, ret>>

\* __getitem__, list branch: the fields copied, the array returned and md
\* dropped.
GetItemListReturn(t) ==
    /\ call.thread[t].at = "getitem_list_copy"
    /\ ret' = [ret EXCEPT ![t] = [op |-> "getitem_list"]]
    /\ call' = [call EXCEPT !.lock = DropRead(@, t), !.thread[t] = Idle]
    /\ UNCHANGED <<store, pc, meta, file>>

\* __setitem__, list branch: let npoints = self.pc.len(); the guard of len
\* is taken and dropped inside len.
SetItemListLen(t) ==
    /\ call.thread[t].at = "setitem_list"
    /\ CanRead(call.lock, t)
    /\ call' = Goto(t, "setitem_list_md")
    /\ UNCHANGED <<store, pc, meta, file, ret>>

\* __setitem__, list branch: let md = self.pc.metadata.read().unwrap();
SetItemListRead(t) ==
    /\ call.thread[t].at = "setitem_list_md"
    /\ CanRead(call.lock, t)
    /\ call' = [call EXCEPT !.lock = TakeRead(@, t), !.thread[t].at = "setitem_list_insert"]
    /\ UNCHANGED <<store, pc, meta, file, ret>>

\* __setitem__, list branch: the fields inserted and md dropped.
SetItemListReturn(t) ==
    /\ call.thread[t].at = "setitem_list_insert"
    /\ ret' = [ret EXCEPT ![t] = [op |-> "setitem_list"]]
    /\ call' = [call EXCEPT !.lock = DropRead(@, t), !.thread[t] = Idle]
    /\ UNCHANGED <<store, pc, meta, file>>

\* write_binary_data: let md = pc.metadata.read().unwrap();
WriteDataRead(t) ==
    /\ call.thread[t].at = "write_binary_data"
    /\ CanRead(call.lock, t)
    /\ call' = [call EXCEPT !.lock = TakeRead(@, t), !.thread[t].at = "write_binary_data_rows"]
    /\ UNCHANGED <<store, pc, meta, file, ret>>

\* write_binary_data: the rows written from md and md dropped.
WriteDataReturn(t) ==
    /\ call.thread[t].at = "write_binary_data_rows"
    /\ ret' = [ret EXCEPT ![t] = [op |-> "write_binary_data"]]
    /\ call' = [call EXCEPT !.lock = DropRead(@, t), !.thread[t] = Idle]
    /\ UNCHANGED <<store, pc, meta, file>>

NextLock ==
    \E t \in Threads :
        \/ Call(t)
        \/ GetShapeRead(t) \/ GetShapeWidth(t) \/ GetShapeReturn(t)
        \/ SetShapeWrite(t) \/ SetShapeCheck(t) \/ SetShapeWidth(t) \/ SetShapeHeight(t)
        \/ GetItemListRead(t) \/ GetItemListLen(t) \/ GetItemListReturn(t)
        \/ SetItemListLen(t) \/ SetItemListRead(t) \/ SetItemListReturn(t)
        \/ WriteDataRead(t) \/ WriteDataReturn(t)

SpecLock == InitLock /\ [][NextLock]_vars

\* ------------------------------------------------- claims on the lock
\* The places where a thread is about to acquire the lock.
Acquiring ==
    {"get_shape", "set_shape", "getitem_list", "getitem_list_len", "setitem_list",
     "setitem_list_md", "write_binary_data"}

\* C25: every operation that reads the metadata in several steps acquires
\* the lock once and works from that acquisition: no thread is about to
\* acquire the lock of the cell (for example through len()) while it holds
\* a guard of it.
C25_NoReacquire ==
    \A t \in Threads :
        call.thread[t].at \in Acquiring => ~Holds(call.lock, t)

set_viewpoint(m, value) == [ok |-> TRUE, md |-> [m EXCEPT !.viewpoint = value]]

\* str::to_lowercase of the values passed to set_encoding
to_lowercase(val) ==
    CASE val = "BINARY" -> "binary"
      [] val = "Ascii" -> "ascii"
      [] OTHER -> val

\* PyMetadata::set_encoding: [ok, md]
set_encoding(m, val) ==
    IF ~Encoding_from_str(to_lowercase(val)).some
    THEN [ok |-> FALSE, err |-> "Invalid encoding value", md |-> m]
    ELSE [ok |-> TRUE, md |-> [m EXCEPT !.encoding = Encoding_from_str(to_lowercase(val)).val]]

\* PyPointCloud::metadata: a PyMetadata of the Arc cloned, the cell of the
\* point cloud itself.
metadata(p) == p.metadata

\* The point cloud as the operators on values take it: its cell read.
Deref(cells, p) == [metadata |-> cells[p.metadata], fields |-> p.fields]

from_metadata_shares_cell(cells, cell) ==
    [cells |-> cells,
     pc |-> [metadata |-> cell, fields |-> PointCloud_new(cells[cell]).fields]]

\* PyPointCloud::from_metadata: the Metadata in the caller's cell cloned
\* under the read guard, and PointCloud::new of the clone, which puts its
\* own clone in a new cell.
from_metadata(cells, cell) ==
    [cells |-> Append(cells, cells[cell]),
     pc |-> [metadata |-> Len(cells) + 1, fields |-> PointCloud_new(cells[cell]).fields]]

\* arr.slice(s![.., col_start..col_end]).to_owned().to_pyarray(py): the
\* columns col_start..col_end (from 0, col_end excluded) as an array of f64.
Columns(arr, col_start, col_end) ==
    [dtype_name |-> "float64", shape |-> <<arr.shape[1], col_end - col_start>>,
     data |-> [r \in 1..arr.shape[1] |->
                 [c \in 1..(col_end - col_start) |-> arr.data[r][col_start + c]]]]

\* The loop of the list branch of __setitem__ from the k-th name on, fields
\* the field map so far: [ret, pc]. A name the schema lacks or an array
\* from_pyarray refuses returns with the fields inserted before it; a column
\* range past the array panics in slice.
RECURSIVE SetItemListLoop(_, _, _, _, _, _)
SetItemListLoop(p, field_names, arr, k, col_start, fields) ==
    IF k > Len(field_names)
    THEN [ret |-> Ok, pc |-> [metadata |-> p.metadata, fields |-> fields]]
    ELSE IF FindField(p.metadata.fields, field_names[k]) = 0
    THEN [ret |-> Err("No field named"), pc |-> [metadata |-> p.metadata, fields |-> fields]]
    ELSE LET field_meta == p.metadata.fields[FindField(p.metadata.fields, field_names[k])]
             col_end == col_start + field_meta.count
         IN IF col_end > arr.shape[2]
            THEN [ret |-> Panic, pc |-> [metadata |-> p.metadata, fields |-> fields]]
            ELSE IF ~from_pyarray(Columns(arr, col_start, col_end), field_meta.dtype).ok
            THEN [ret |-> Err("ValueError"),
                  pc |-> [metadata |-> p.metadata, fields |-> fields]]
            ELSE SetItemListLoop(p, field_names, arr, k + 1, col_end,
                     Insert(fields, field_names[k],
                            from_pyarray(Columns(arr, col_start, col_end),
                                         field_meta.dtype).fd))

\* The sum of the counts of the schema entries whose name is in field_names.
total_expected_columns(schema, field_names) ==
    Sum([i \in 1..Len(schema) |->
            IF \E k \in 1..Len(field_names) : field_names[k] = schema[i].name
            THEN schema[i].count ELSE 0])

\* PyPointCloud::__setitem__ with a list of names and an array: [ret, pc].
\* The value is downcast to an array of f64.
setitem_list(p, field_names, arr) ==
    IF arr.dtype_name # "float64" THEN [ret |-> Err("TypeError"), pc |-> p]
    ELSE IF arr.shape[1] # len(p) THEN [ret |-> Err("Row count mismatch"), pc |-> p]
    ELSE IF arr.shape[2] # total_expected_columns(p.metadata.fields, field_names)
    THEN [ret |-> Err("Column count mismatch"), pc |-> p]
    ELSE SetItemListLoop(p, field_names, arr, 1, 0, p.fields)

MaxCalls == 3       \* calls of one run

\* The caller's metadata: schemas of distinct names, of one row of npoints
\* points.
ViewSchemas ==
    {<<[name |-> "x", dtype |-> "F64", count |-> MaxCount]>>}
    \cup {<<[name |-> "x", dtype |-> "F64", count |-> 1],
            [name |-> "y", dtype |-> d, count |-> 1]>> : d \in {"F64", "U8"}}

ViewMetadatas ==
    {[fields |-> f, width |-> n, height |-> 1, npoints |-> n, viewpoint |-> Identity,
      encoding |-> "BinaryCompressed", version |-> "0.7"] :
        f \in ViewSchemas, n \in 1..MaxCloudPoints}

\* The arrays assigned: of f64 or u8 and of the rows of the cloud, or of f64
\* and one row more.
ViewArray(d, rows, cols) ==
    [dtype_name |-> as_numpy_dtype(d), shape |-> <<rows, cols>>,
     data |-> [r \in 1..rows |-> [c \in 1..cols |-> Samples(d)[((r + c) % 3) + 1]]]]

ViewArrays(n) ==
    {ViewArray("F64", n, cols) : cols \in {1, MaxCount}}
    \cup {ViewArray("U8", n, 1), ViewArray("F64", n + 1, 1)}

\* The objects a setter is called on: the caller's PyMetadata (0) and the
\* view metadata() returns of the i-th point cloud.
CellOf(via) == IF via = 0 THEN meta ELSE metadata(pc[via])

Called(op, via, md) ==
    call' = [op |-> op, via |-> via, store |-> store, pc |-> pc, md |-> md,
             n |-> call.n + 1]

InitView ==
    /\ \E m \in ViewMetadatas :
          /\ store = <<m>>
          /\ call = [op |-> "none", via |-> 0, store |-> <<m>>, pc |-> <<>>, md |-> m,
                     n |-> 0]
    /\ meta = 1
    /\ pc = <<>>
    /\ file = Unused
    /\ ret = Ok

\* PyPointCloud.from_metadata(m) of the caller's PyMetadata
ViewFromMetadata ==
    /\ pc = <<>>
    /\ call.n < MaxCalls
    /\ store' = from_metadata(store, meta).cells
    /\ pc' = <<from_metadata(store, meta).pc>>
    /\ Called("from_metadata", 0, store[meta])
    /\ ret' = Ok
    /\ UNCHANGED <<meta, file>>

\* A setter leaves in the cell the metadata it computed and returns ok or
\* the error.
Set(via, op, out) ==
    /\ call.n < MaxCalls
    /\ store' = [store EXCEPT ![CellOf(via)] = out.md]
    /\ Called(op, via, out.md)
    /\ ret' = IF out.ok THEN Ok ELSE Err(out.err)
    /\ UNCHANGED <<pc, meta, file>>

ViewSetFields ==
    \E via \in 0..Len(pc), names \in {<<"a">>, <<"y", "x">>} :
        Set(via, "set_fields", set_fields(store[CellOf(via)], names))

ViewSetShape ==
    \E via \in 0..Len(pc), value \in {<<1, 1>>, <<1, MaxCloudPoints>>, <<MaxCloudPoints, 1>>} :
        Set(via, "set_shape", set_shape(store[CellOf(via)], value))

ViewSetEncoding ==
    \E via \in 0..Len(pc), val \in {"BINARY", "zip"} :
        Set(via, "set_encoding", set_encoding(store[CellOf(via)], val))

ViewSetViewpoint ==
    \E via \in 0..Len(pc), value \in {<<FloatOne, 0, 0, FloatOne, 0, 0, 0>>} :
        Set(via, "set_viewpoint", set_viewpoint(store[CellOf(via)], value))

\* A call on the i-th point cloud that leaves out.pc and returns out.ret.
Assign(i, op, out) ==
    /\ call.n < MaxCalls
    /\ store' = [store EXCEPT ![pc[i].metadata] = out.pc.metadata]
    /\ pc' = [pc EXCEPT ![i].fields = out.pc.fields]
    /\ Called(op, i, out.pc.metadata)
    /\ ret' = out.ret
    /\ UNCHANGED <<meta, file>>

\* pc[field_name] = pyarray
ViewSetItemStr ==
    \E i \in 1..Len(pc), field_name \in {"x", "z"} :
      \E pyarray \in ViewArrays(len(Deref(store, pc[i]))) :
        Assign(i, "setitem_str", infer_and_store_field(Deref(store, pc[i]), field_name, pyarray))

\* pc[field_names] = arr
ViewSetItemList ==
    \E i \in 1..Len(pc),
       field_names \in {<<"x">>, <<"y", "x">>, <<"x", "q">>, <<"q", "x">>} :
      \E arr \in ViewArrays(len(Deref(store, pc[i]))) :
        Assign(i, "setitem_list", setitem_list(Deref(store, pc[i]), field_names, arr))

\* pc[key] of the first point cloud: the point cloud returned is the second,
\* its metadata in a new cell.
ViewGetItemSlice ==
    /\ Len(pc) = 1
    /\ call.n < MaxCalls
    /\ \E key \in [start : {None, Some(1)}, stop : {None}, step : {None, Some(MaxStep)}] :
          LET out == getitem_slice(Deref(store, pc[1]), key)
          IN /\ ~IsPanic(out)
             /\ store' = Append(store, out.pc.metadata)
             /\ pc' = Append(pc, [metadata |-> Len(store) + 1, fields |-> out.pc.fields])
             /\ Called("getitem_slice", 1, out.pc.metadata)
    /\ ret' = Ok
    /\ UNCHANGED <<meta, file>>

\* pc[key] = new_pc, new_pc the other point cloud
ViewSetItemSlice ==
    /\ Len(pc) = 2
    /\ \E i \in 1..2, key \in [start : {Some(0)}, stop : {None}, step : {Some(1), Some(MaxStep)}] :
          \E out \in setitem_slice(Deref(store, pc[i]), key, Deref(store, pc[3 - i])) :
              Assign(i, "setitem_slice", out)

NextView ==
    \/ ViewFromMetadata
    \/ ViewSetFields
    \/ ViewSetShape
    \/ ViewSetEncoding
    \/ ViewSetViewpoint
    \/ ViewSetItemStr
    \/ ViewSetItemList
    \/ ViewGetItemSlice
    \/ ViewSetItemSlice

SpecView == InitView /\ [][NextView]_vars

\* The metadata an object shows when read: 0 the caller's PyMetadata, j the
\* j-th point cloud; now, and before the last call.
Observed(j) == IF j = 0 THEN store[meta] ELSE store[pc[j].metadata]
Before(j) == IF j = 0 THEN call.store[meta] ELSE call.store[call.pc[j].metadata]

\* C27: for the point cloud built by from_metadata from a schema of distinct
\* names, after any sequence of single-field assignments, multi-field
\* assignments, slice updates and calls of the setters set_fields, set_shape,
\* set_encoding and set_viewpoint of a metadata view, the keys of the field
\* map are the names of metadata.fields, the two have the same size, and
\* every stored field has the dtype of the schema entry of its name.
C27_FieldsMatchSchema ==
    Len(pc) >= 1 =>
        LET p == Deref(store, pc[1])
            schema == p.metadata.fields
        IN /\ DOMAIN p.fields = {schema[i].name : i \in 1..Len(schema)}
           /\ Cardinality(DOMAIN p.fields) = Len(schema)
           /\ \A i \in 1..Len(schema) :
                 schema[i].name \in DOMAIN p.fields
                    => p.fields[schema[i].name].dtype = schema[i].dtype

\* C28: a setter called on the view metadata() returns of a point cloud
\* leaves what it wrote to be read from that point cloud; a point cloud
\* built by from_metadata and one produced by slicing own a copy: a call
\* that goes through one object (the caller's metadata, a point cloud or
\* its view) changes the metadata of no other, and from_metadata and
\* slicing change the metadata of no object there was.
C28_MetadataOwnership ==
    /\ call.op \in {"set_fields", "set_shape", "set_encoding", "set_viewpoint"}
          => Observed(call.via) = call.md
    /\ call.op # "none"
          => \A j \in 0..Len(call.pc) :
                (j # call.via \/ call.op \in {"from_metadata", "getitem_slice"})
                   => Observed(j) = Before(j)

\* A slice was taken of the point cloud built from the caller's metadata,
\* and set_fields through the view of the first point cloud renamed its
\* fields: the first point cloud reads the new names, the caller's metadata
\* and the slice the old ones.
C28_Witness ==
    /\ Len(pc) = 2
    /\ call.op = "set_fields" /\ call.via = 1 /\ ret.ok
    /\ Observed(1) # Before(1)
    /\ Observed(1).fields[1].name = "a"
    /\ Observed(0).fields[1].name = "x"
    /\ Observed(2).fields[1].name = "x"

\* C29: when the assignment to a list of field names returns an error (a
\* row count mismatch, a column count mismatch or a name the schema lacks,
\* wherever the name stands in the list), no field of the point cloud has
\* been replaced.
C29_ListAssignAllOrNothing ==
    (call.op = "setitem_list" /\ ~IsPanic(ret) /\ Failed(ret))
        => pc[call.via].fields = call.pc[call.via].fields
=============================================================================
